---------------------------- MODULE Spec2Model ----------------------------
(***************************************************************************)
(* A model of rapiddns-cli: the API client's envelope decoder              *)
(* (internal/api/client.go), the search command's pagination loop and the  *)
(* extraction helpers (cmd/search.go), and the export command's archive    *)
(* extraction and CSV adapter (cmd/export.go).                             *)
(*                                                                         *)
(* Every part has a specification of its own over the shared variables:    *)
(*   SpecDecode   Client.Search / Client.AdvancedQuery on one response     *)
(*   Spec         searchCmd.Run: the pagination loop and its result        *)
(*   SpecSearch   searchCmd.Run: the loop and the output steps after it    *)
(*   SpecExtract  extractSubdomains / extractIPs on one SearchData         *)
(*   SpecUnzip    unzip, one archive entry per step                        *)
(*   SpecCSV      parseCSV on one file                                     *)
(*   SpecExport   exportStartCmd.Run: submit, poll, download, process      *)
(*   SpecExportLive      the same with the poll loop unbounded, and fair   *)
(*   SpecExportCommands  exportStartCmd.Run and exportStatusCmd.Run        *)
(*   SpecClient   the four API methods of the client                       *)
(***************************************************************************)
EXTENDS Integers, Sequences, FiniteSets, TLC

VARIABLES
    \* ---- Client.Search / Client.AdvancedQuery
    lastCall,       \* the client method that decoded lastResp ("none": not yet)
    lastResp,       \* the HTTP response received
    result,         \* what it returned: a SearchData or an error
    \* ---- searchCmd.Run
    pc,             \* "loop", "done" (data built), "failed" (error printed), "panic",
                    \* "returned" (Run ended after the output steps)
    searchSilent,   \* --silent
    searchExtract,  \* --extract-subdomains
    searchExtractIPs, \* --extract-ips
    searchOutFile,  \* --file ("": not given)
    searchPage,     \* --page
    searchPageSize, \* --pagesize
    searchMax,      \* --max
    allRecords,     \* the records accumulated so far
    currentPage,    \* the page the next request asks for
    err,            \* the error that fails the command (NoResult: nil)
    requests,       \* the pages requested from the server, in order
    pageResp,       \* what client.Search returned for the last request
    warnings,       \* "Warning: Stopped fetching at page ..." lines on stderr
    data,           \* the combined *api.SearchData built after the loop
    stderr,         \* the lines Run wrote to os.Stderr, by kind
    stdout,         \* what Run wrote to os.Stdout, by kind
    created,        \* the directory and files Run created, by kind
    \* ---- extractSubdomains / extractIPs
    exData,         \* the *api.SearchData handed to the helper
    exCall,         \* the helper that ran on it ("none": not yet)
    subFile,        \* the subdomain file: [created, lines]
    ipFile,         \* the IP file: [created, lines]
    statsFile,      \* the IP stats file: [created, lines of [subnet, count]]
    \* ---- unzip
    zipFiles,       \* r.File: the entries [Name, IsDir, Size] of the archive
    zpc,            \* "idle", "start", "loop" or "returned"
    zi,             \* the number of entries the loop has taken up
    filePaths,      \* the local slice of extracted paths
    zipErr,         \* the error unzip returns ("none": nil)
    fsDirs,         \* the directories that exist
    fsFiles,        \* the files that exist: path -> [bytes, entry]
    writeLog,       \* every change made to the file system: [entry, op, path]
    \* ---- parseCSV
    csvFile,        \* the lines of the file: each a list of cells, <<>> a blank line
    csvCall,        \* "idle", "none" (not yet called) or "done"
    csvRecords,     \* the records parseCSV returns
    csvErr,         \* the error parseCSV returns ("none": nil)
    \* ---- exportStartCmd.Run
    apiKey,         \* config.GetAPIKey()
    exportCompress, \* --compress
    exportExtract,  \* --extract-subdomains
    exportExtractIPs, \* --extract-ips
    epc,            \* the step Run is at: "idle", "start", "submit", "poll",
                    \* "download", "decompress", "postprocess" or "done";
                    \* "status": exportStatusCmd.Run is about to run
    exportEnd,      \* how Run ended ("running": it has not)
    taskID,         \* the task identifier Run polls with
    downloadURL,    \* the URL Run downloads from
    fileName,       \* the name of the downloaded file
    extractedCSVPath, \* which CSV file Run found ("": none)
    polls,          \* the number of status checks made
    slept,          \* the seconds of the last time.Sleep (0: none yet)
    expCall,        \* the client method of the last API call ("none": no call yet)
    expResp,        \* the response that call received
    expResult,      \* what that call returned
    etrace          \* the requests and processing steps made, in order

decodeVars == <<lastCall, lastResp, result>>
searchVars ==
    <<pc, searchPage, searchPageSize, searchMax, allRecords, currentPage, err,
      requests, pageResp, warnings, data,
      searchSilent, searchExtract, searchExtractIPs, searchOutFile,
      stderr, stdout, created>>
extractVars == <<exData, exCall, subFile, ipFile, statsFile>>
unzipVars == <<zipFiles, zpc, zi, filePaths, zipErr, fsDirs, fsFiles, writeLog>>
csvVars == <<csvFile, csvCall, csvRecords, csvErr>>
exportVars ==
    <<apiKey, exportCompress, exportExtract, exportExtractIPs, epc, exportEnd,
      taskID, downloadURL, fileName, extractedCSVPath, polls, slept,
      expCall, expResp, expResult, etrace>>
vars == <<decodeVars, searchVars, extractVars, unzipVars, csvVars, exportVars>>

-----------------------------------------------------------------------------
(* Bounds of the model.                                                    *)

\* longest record list inside one message / data sub-document
MaxListLen == 1
\* most records the server puts on one page
MaxPageLen == 2
\* largest --pagesize tried (0 up to this)
MaxPageSize == 2
\* largest --max tried (-1 up to this)
MaxMax == 6
\* largest --page tried (1 up to this)
MaxStartPage == 2
\* most records in the SearchData handed to an extraction helper
MaxExtractRecs == 4
\* most entries in an archive
MaxEntries == 3
\* most lines in a CSV file
MaxRows == 3
\* most status checks of one export
MaxPolls == 3

-----------------------------------------------------------------------------
(* JSON sub-documents (json.RawMessage) as the decoder sees them.          *)
(* kind:  "absent" (no such key: zero bytes), "null", "string", "number"   *)
(*        (any JSON value that is neither an object nor a string), or      *)
(*        "object".                                                        *)
(* An object's members total / status / data / result are each absent      *)
(* ("none"), well typed, or ill typed ("bad": a value json.Unmarshal       *)
(* cannot store in the Go field).                                          *)

NoneField == [p |-> "none", n |-> 0, s |-> "", l |-> <<>>]
IntField(k) == [p |-> "int", n |-> k, s |-> "", l |-> <<>>]
BadField == [p |-> "bad", n |-> 0, s |-> "", l |-> <<>>]
StrField(t) == [p |-> "str", n |-> 0, s |-> t, l |-> <<>>]
ListField(recs) == [p |-> "list", n |-> 0, s |-> "", l |-> recs]

ScalarDoc(k, t) ==
    [kind |-> k, str |-> t, total |-> NoneField, status |-> NoneField,
     data |-> NoneField, result |-> NoneField]

AbsentDoc == ScalarDoc("absent", "")
NullDoc == ScalarDoc("null", "")
StringDoc(t) == ScalarDoc("string", t)
NumberDoc == ScalarDoc("number", "")

ObjectDoc(t, s, d, r) ==
    [kind |-> "object", str |-> "", total |-> t, status |-> s,
     data |-> d, result |-> r]

\* The records <<base+1, ..., base+k>>: records are opaque identities here.
RecList(base, k) == [i \in 1..k |-> base + i]

\* The strings a bare-string sub-document or a msg member carries.
DataStrings == {"ok", "quota exceeded"}

\* The sub-documents the model feeds the decoder.  Records under one key
\* are numbered from `base`, so the two keys of an envelope carry different
\* records and the origin of a returned record is visible.
Docs(base) ==
    {AbsentDoc, NullDoc, NumberDoc}
    \cup {StringDoc(t) : t \in DataStrings}
    \cup {ObjectDoc(t, s, d, r) :
            t \in {NoneField, IntField(1), BadField},
            s \in {NoneField, StrField("ok")},
            d \in {NoneField} \cup {ListField(RecList(base, k)) : k \in 0..MaxListLen},
            r \in {NoneField, ListField(RecList(base + 5, 1))}}

MessageBase == 0
DataBase == 10

(* The envelope's status member: interface{} in SearchResponse.            *)
NumStatus(k) == [t |-> "number", n |-> k, s |-> ""]
StrStatus(t) == [t |-> "string", n |-> 0, s |-> t]
NoStatus == [t |-> "none", n |-> 0, s |-> ""]

Statuses ==
    {NumStatus(200), NumStatus(404), StrStatus("200"), StrStatus("ok"),
     StrStatus("OK"), NoStatus}

Msgs == {"", "denied"}

Envelopes ==
    [status : Statuses, msg : Msgs, message : Docs(MessageBase), data : Docs(DataBase)]

ZeroEnvelope ==
    [status |-> NoStatus, msg |-> "", message |-> AbsentDoc, data |-> AbsentDoc]

(* What resty hands back: a transport error (no response), or a response   *)
(* with an HTTP status code and a body decoded into the envelope.          *)
HTTPCodes == {200, 401, 403, 500}

Responses ==
    {[transport |-> "error", code |-> 0, env |-> ZeroEnvelope]}
    \cup [transport : {"ok"}, code : HTTPCodes, env : Envelopes]

-----------------------------------------------------------------------------
(* api.SearchData and json.Unmarshal into it.                              *)

ZeroSearchData == [Total |-> 0, Status |-> "", Data |-> <<>>, Result |-> <<>>]

\* json.Unmarshal(doc, &sd): the error flag and sd afterwards.  An object is
\* decoded member by member into the fields already in sd; an ill-typed
\* member is skipped and reported after the others have been stored.
UnmarshalSearchData(doc, sd) ==
    CASE doc.kind = "absent" -> [err |-> TRUE, sd |-> sd]
      [] doc.kind = "null" -> [err |-> FALSE, sd |-> sd]
      [] doc.kind \in {"string", "number"} -> [err |-> TRUE, sd |-> sd]
      [] OTHER ->
           [err |-> \E f \in {doc.total, doc.status, doc.data, doc.result} : f.p = "bad",
            sd |-> [Total |-> IF doc.total.p = "int" THEN doc.total.n ELSE sd.Total,
                    Status |-> IF doc.status.p = "str" THEN doc.status.s ELSE sd.Status,
                    Data |-> IF doc.data.p = "list" THEN doc.data.l ELSE sd.Data,
                    Result |-> IF doc.result.p = "list" THEN doc.result.l ELSE sd.Result]]

\* A string decoder that always fails.
UnmarshalStringErrAlways(doc) == TRUE

\* json.Unmarshal(doc, &msg) with msg a string: the error flag.
UnmarshalStringErr(doc) == doc.kind \notin {"string", "null"}

-----------------------------------------------------------------------------
(* Client.Search and Client.AdvancedQuery.                                 *)
(* A return value is [ok, fmt, arg, sd]: on success sd is the *SearchData; *)
(* on failure fmt names the format string of the error and arg its         *)
(* argument.                                                               *)

Success(sd) == [ok |-> TRUE, fmt |-> "", arg |-> "", sd |-> sd]
Failure(f, a) == [ok |-> FALSE, fmt |-> f, arg |-> a, sd |-> ZeroSearchData]

NoResult == Failure("none", "")

ErrTransport == "transport error"
ErrAuth == "API key is invalid or expired"
ErrAPI == "API error: %s"
ErrDataMessage == "API returned data message: '%s'"
ErrParse == "failed to parse data: %v"

\* resp.Status(): the status line's text.
StatusText(code) ==
    CASE code = 200 -> "200 OK"
      [] code = 401 -> "401 Unauthorized"
      [] code = 403 -> "403 Forbidden"
      [] OTHER -> "500 Internal Server Error"

\* An error test that sees server errors only.
IsErrorServerOnly(code) == code > 499

\* resp.IsError()
IsError(code) == code > 399

\* A status check that folds case: "OK" passes too.
StatusOKFoldCase(st) ==
    \/ st.t = "number" /\ st.n = 200
    \/ st.t = "string" /\ st.s \in {"200", "ok", "OK"}

\* statusOK
StatusOK(st) ==
    \/ st.t = "number" /\ st.n = 200
    \/ st.t = "string" /\ (st.s = "200" \/ st.s = "ok")

\* A validity check that forgets the two record lists.
LooksValidNoLists(sd) == sd.Total > 0 \/ sd.Status # ""

\* A validity check that accepts whatever decodes.
LooksValidAlways(sd) == TRUE

\* "Check if it actually has data or looks valid"
LooksValid(sd) ==
    Len(sd.Data) > 0 \/ Len(sd.Result) > 0 \/ sd.Total > 0 \/ sd.Status # ""

\* The payload part of Search, after the status check: message first, then
\* data decoded into the same searchData variable.
SearchPayload(env) ==
    LET fromMessage == UnmarshalSearchData(env.message, ZeroSearchData)
        tried == env.message.kind # "absent"
        searchData == IF tried THEN fromMessage.sd ELSE ZeroSearchData
        fromData == UnmarshalSearchData(env.data, searchData)
    IN  IF tried /\ ~fromMessage.err /\ LooksValid(fromMessage.sd)
        THEN Success(fromMessage.sd)
        ELSE IF fromData.err
             THEN IF ~UnmarshalStringErr(env.data)
                  THEN Failure(ErrDataMessage, env.data.str)
                  ELSE Failure(ErrParse, "")
             ELSE Success(fromData.sd)

Search(resp) ==
    IF resp.transport = "error" THEN Failure(ErrTransport, "")
    ELSE IF IsError(resp.code)
    THEN IF resp.code = 401 \/ resp.code = 403
         THEN Failure(ErrAuth, "")
         ELSE Failure(ErrAPI, StatusText(resp.code))
    ELSE IF ~StatusOK(resp.env.status) THEN Failure(ErrAPI, resp.env.msg)
    ELSE SearchPayload(resp.env)

\* AdvancedQuery without its special case for the bare string "ok".
QueryPayloadNoSpecialCase(env) == SearchPayload(env)

\* The payload part of AdvancedQuery: as Search, but a data sub-document
\* that is the bare string "ok" is an empty result.
QueryPayload(env) ==
    LET fromMessage == UnmarshalSearchData(env.message, ZeroSearchData)
        tried == env.message.kind # "absent"
        searchData == IF tried THEN fromMessage.sd ELSE ZeroSearchData
        fromData == UnmarshalSearchData(env.data, searchData)
    IN  IF tried /\ ~fromMessage.err /\ LooksValid(fromMessage.sd)
        THEN Success(fromMessage.sd)
        ELSE IF fromData.err
             THEN IF ~UnmarshalStringErr(env.data)
                  THEN IF env.data.str = "ok"
                       THEN Success([ZeroSearchData EXCEPT !.Status = "ok"])
                       ELSE Failure(ErrDataMessage, env.data.str)
                  ELSE Failure(ErrParse, "")
             ELSE Success(fromData.sd)

AdvancedQuery(resp) ==
    IF resp.transport = "error" THEN Failure(ErrTransport, "")
    ELSE IF IsError(resp.code)
    THEN IF resp.code = 401 \/ resp.code = 403
         THEN Failure(ErrAuth, "")
         ELSE Failure(ErrAPI, StatusText(resp.code))
    ELSE IF ~StatusOK(resp.env.status) THEN Failure(ErrAPI, resp.env.msg)
    ELSE QueryPayload(resp.env)

-----------------------------------------------------------------------------
(* Client.ExportData and Client.CheckExportStatus.                         *)
(* Their sub-documents are objects with the members of ExportResponseData  *)
(* (export_id) or of ExportStatusData (id, status, progress_percent,       *)
(* download_url), each absent, well typed or ill typed as above.  A        *)
(* download URL is a sequence of one-character strings.                    *)

ExportScalarDoc(k, t) ==
    [kind |-> k, str |-> t, export_id |-> NoneField, id |-> NoneField,
     status |-> NoneField, progress_percent |-> NoneField, download_url |-> NoneField]

ExportAbsentDoc == ExportScalarDoc("absent", "")
ExportNullDoc == ExportScalarDoc("null", "")
ExportStringDoc(t) == ExportScalarDoc("string", t)

\* {"export_id": e}
ExportIDDoc(e) == [ExportScalarDoc("object", "") EXCEPT !.export_id = e]

\* {"id": i, "status": s, "progress_percent": p, "download_url": u}
StatusObjectDoc(i, s, p, u) ==
    [ExportScalarDoc("object", "") EXCEPT
        !.id = i, !.status = s, !.progress_percent = p, !.download_url = u]

ZeroExportResponseData == [ExportID |-> ""]

ZeroExportStatusData ==
    [ID |-> "", Status |-> "", ProgressPercent |-> 0, DownloadURL |-> <<>>]

\* json.Unmarshal(doc, &exportData)
UnmarshalExportData(doc, d) ==
    CASE doc.kind = "absent" -> [err |-> TRUE, data |-> d]
      [] doc.kind = "null" -> [err |-> FALSE, data |-> d]
      [] doc.kind = "string" -> [err |-> TRUE, data |-> d]
      [] OTHER ->
           [err |-> doc.export_id.p \notin {"none", "str"},
            data |-> [ExportID |-> IF doc.export_id.p = "str"
                                   THEN doc.export_id.s ELSE d.ExportID]]

\* json.Unmarshal(doc, &statusData)
UnmarshalStatusData(doc, d) ==
    CASE doc.kind = "absent" -> [err |-> TRUE, data |-> d]
      [] doc.kind = "null" -> [err |-> FALSE, data |-> d]
      [] doc.kind = "string" -> [err |-> TRUE, data |-> d]
      [] OTHER ->
           [err |-> \/ doc.id.p \notin {"none", "str"}
                    \/ doc.status.p \notin {"none", "str"}
                    \/ doc.progress_percent.p \notin {"none", "int"}
                    \/ doc.download_url.p \notin {"none", "str"},
            data |-> [ID |-> IF doc.id.p = "str" THEN doc.id.s ELSE d.ID,
                      Status |-> IF doc.status.p = "str" THEN doc.status.s ELSE d.Status,
                      ProgressPercent |-> IF doc.progress_percent.p = "int"
                                          THEN doc.progress_percent.n
                                          ELSE d.ProgressPercent,
                      DownloadURL |-> IF doc.download_url.p = "str"
                                      THEN doc.download_url.s ELSE d.DownloadURL]]

(* A return value is [ok, fmt, arg, data]: data is the *ExportResponseData  *)
(* or *ExportStatusData on success and nil (NoData) on failure.            *)
NoData == [nil |-> TRUE]
ExportSuccess(d) == [ok |-> TRUE, fmt |-> "", arg |-> "", data |-> d]
ExportFailure(f, a) == [ok |-> FALSE, fmt |-> f, arg |-> a, data |-> NoData]

NoExportResult == ExportFailure("none", "")

ErrStatusNotOK == "API error: status not ok"

\* The payload part of ExportData, after the status check.
ExportPayload(env) ==
    LET fromMessage == UnmarshalExportData(env.message, ZeroExportResponseData)
        tried == env.message.kind # "absent"
        exportData == IF tried THEN fromMessage.data ELSE ZeroExportResponseData
        fromData == UnmarshalExportData(env.data, exportData)
    IN  IF tried /\ ~fromMessage.err /\ fromMessage.data.ExportID # ""
        THEN ExportSuccess(fromMessage.data)
        ELSE IF fromData.err
             THEN IF ~UnmarshalStringErr(env.data)
                  THEN ExportFailure(ErrDataMessage, env.data.str)
                  ELSE ExportFailure(ErrParse, "")
             ELSE ExportSuccess(fromData.data)

ExportData(resp) ==
    IF resp.transport = "error" THEN ExportFailure(ErrTransport, "")
    ELSE IF IsError(resp.code)
    THEN IF resp.code = 401 \/ resp.code = 403
         THEN ExportFailure(ErrAuth, "")
         ELSE ExportFailure(ErrAPI, StatusText(resp.code))
    ELSE IF resp.env.status # "ok" THEN ExportFailure(ErrAPI, resp.env.msg)
    ELSE ExportPayload(resp.env)

\* The payload part of CheckExportStatus, after the status check.
StatusPayload(env) ==
    LET fromMessage == UnmarshalStatusData(env.message, ZeroExportStatusData)
        tried == env.message.kind # "absent"
        statusData == IF tried THEN fromMessage.data ELSE ZeroExportStatusData
        fromData == UnmarshalStatusData(env.data, statusData)
    IN  IF tried /\ ~fromMessage.err
           /\ (fromMessage.data.ID # "" \/ fromMessage.data.Status # "")
        THEN ExportSuccess(fromMessage.data)
        ELSE IF fromData.err
             THEN IF ~UnmarshalStringErr(env.data)
                  THEN ExportFailure(ErrDataMessage, env.data.str)
                  ELSE ExportFailure(ErrParse, "")
             ELSE ExportSuccess(fromData.data)

CheckExportStatus(resp) ==
    IF resp.transport = "error" THEN ExportFailure(ErrTransport, "")
    ELSE IF IsError(resp.code)
    THEN IF resp.code = 401 \/ resp.code = 403
         THEN ExportFailure(ErrAuth, "")
         ELSE ExportFailure(ErrAPI, StatusText(resp.code))
    ELSE IF resp.env.status # "ok" THEN ExportFailure(ErrStatusNotOK, "")
    ELSE StatusPayload(resp.env)

\* Client.DownloadFile: the error it returns ("none": nil).
ErrDownload == "download failed with status: %s"
DownloadFile(resp) ==
    IF resp.transport = "error" THEN ErrTransport
    ELSE IF IsError(resp.code) THEN ErrDownload
    ELSE "none"

(* The envelope ExportData and CheckExportStatus decode the body into:     *)
(* status and msg are Go strings, "" when the member is absent.            *)
ZeroExportEnvelope ==
    [status |-> "", msg |-> "", message |-> ExportAbsentDoc, data |-> ExportAbsentDoc]

\* exportStartCmd.Run has not been called and will not be.
ExportNotCalled ==
    /\ exportCompress = TRUE
    /\ exportExtract = FALSE
    /\ exportExtractIPs = FALSE
    /\ epc = "idle"
    /\ exportEnd = "running"
    /\ taskID = ""
    /\ downloadURL = <<>>
    /\ fileName = <<>>
    /\ extractedCSVPath = ""
    /\ polls = 0
    /\ slept = 0
    /\ expCall = "none"
    /\ expResp = [transport |-> "error", code |-> 0, env |-> ZeroExportEnvelope]
    /\ expResult = NoExportResult
    /\ etrace = <<>>

ExportIdle == apiKey = "" /\ ExportNotCalled

\* A file a helper did not create, and one it created and wrote.
NoFile == [created |-> FALSE, lines |-> <<>>]
File(lines) == [created |-> TRUE, lines |-> lines]

\* No extraction helper has run and none will.
ExtractIdle ==
    /\ exData = ZeroSearchData
    /\ exCall = "none"
    /\ subFile = NoFile
    /\ ipFile = NoFile
    /\ statsFile = NoFile

\* unzip has not been called and will not be.
UnzipIdle ==
    /\ zipFiles = <<>>
    /\ zpc = "idle"
    /\ zi = 0
    /\ filePaths = <<>>
    /\ zipErr = "none"
    /\ fsDirs = {}
    /\ fsFiles = <<>>
    /\ writeLog = {}

\* parseCSV has not been called and will not be.
CSVIdle ==
    /\ csvFile = <<>>
    /\ csvCall = "idle"
    /\ csvRecords = <<>>
    /\ csvErr = "none"

DecodeIdle ==
    /\ lastCall = "none"
    /\ lastResp = [transport |-> "error", code |-> 0, env |-> ZeroEnvelope]
    /\ result = NoResult

-----------------------------------------------------------------------------
(* searchCmd.Run: the pagination loop.                                     *)

\* Records are opaque identities; two of them, so that a page can repeat a
\* record the loop already holds.
RecordIds == {1, 2}

RECURSIVE SeqsUpTo(_, _)
SeqsUpTo(S, n) ==
    IF n = 0 THEN {<<>>}
    ELSE LET shorter == SeqsUpTo(S, n - 1)
         IN  shorter \cup {Append(s, x) : s \in {q \in shorter : Len(q) = n - 1}, x \in S}

PageData(d, r) == [Total |-> Len(d), Status |-> "ok", Data |-> d, Result |-> r]

\* What client.Search can return for one page: an error, or a SearchData
\* whose records are under Data, under Result, or under both.
PageOutcomes ==
    {Failure(ErrTransport, ""), Failure(ErrAPI, "denied")}
    \cup {Success(PageData(d, <<>>)) : d \in SeqsUpTo(RecordIds, MaxPageLen)}
    \cup {Success(PageData(<<>>, r)) : r \in SeqsUpTo(RecordIds, MaxPageLen) \ {<<>>}}
    \cup {Success(PageData(<<1>>, <<2>>))}

\* "Extract records from this page"
PageRecords(sd) ==
    IF Len(sd.Data) > 0 THEN sd.Data
    ELSE IF Len(sd.Result) > 0 THEN sd.Result
    ELSE <<>>

\* A first-page test with the comparison inverted.
NothingFetchedInverted(records) == Len(records) # 0

\* "If it's the first page and fails": len(allRecords) == 0
NothingFetched(records) == Len(records) = 0

\* An empty-page test that never stops the loop.
NoMoreDataNever(pageRecords) == FALSE

\* "No more data": len(pageRecords) == 0
NoMoreData(pageRecords) == Len(pageRecords) = 0

\* A limit check that waits for twice --max.
ReachedMaxDoubled(records) == Len(records) >= 2 * searchMax

\* A limit check that lets the count equal to --max pass.
ReachedMaxStrict(records) == Len(records) > searchMax

\* "Check limits": len(allRecords) >= searchMax
ReachedMax(records) == Len(records) >= searchMax

\* A last-page check that is off by one.
ShortPageOffByOne(pageRecords) == Len(pageRecords) + 1 < searchPageSize

\* "Check if this was the last page": len(pageRecords) < searchPageSize
ShortPage(pageRecords) == Len(pageRecords) < searchPageSize

\* An iteration that puts the new page before the records already held.
IterationPrepends(out) ==
    LET pageRecords == PageRecords(out.sd)
        appended == pageRecords \o allRecords
        keep == [records |-> allRecords, break |-> TRUE, err |-> err,
                 warn |-> FALSE, panic |-> FALSE]
    IN  IF ~out.ok
        THEN IF NothingFetched(allRecords)
             THEN [keep EXCEPT !.err = out]
             ELSE [keep EXCEPT !.warn = TRUE]
        ELSE IF NoMoreData(pageRecords)
        THEN keep
        ELSE IF ReachedMax(appended)
        THEN IF searchMax < 0
             THEN [keep EXCEPT !.records = appended, !.panic = TRUE]
             ELSE [keep EXCEPT !.records = SubSeq(appended, 1, searchMax)]
        ELSE IF ShortPage(pageRecords)
        THEN [keep EXCEPT !.records = appended]
        ELSE [keep EXCEPT !.records = appended, !.break = FALSE]

\* One iteration of the loop on the page outcome `out`: the records held
\* afterwards, whether the loop breaks, the fatal error, the warning printed
\* and whether the slice expression allRecords[:searchMax] panics.
Iteration(out) ==
    LET pageRecords == PageRecords(out.sd)
        appended == allRecords \o pageRecords
        keep == [records |-> allRecords, break |-> TRUE, err |-> err,
                 warn |-> FALSE, panic |-> FALSE]
    IN  IF ~out.ok
        THEN IF NothingFetched(allRecords)
             THEN [keep EXCEPT !.err = out]
             ELSE [keep EXCEPT !.warn = TRUE]
        ELSE IF NoMoreData(pageRecords)
        THEN keep
        ELSE IF ReachedMax(appended)
        THEN IF searchMax < 0
             THEN [keep EXCEPT !.records = appended, !.panic = TRUE]
             ELSE [keep EXCEPT !.records = SubSeq(appended, 1, searchMax)]
        ELSE IF ShortPage(pageRecords)
        THEN [keep EXCEPT !.records = appended]
        ELSE [keep EXCEPT !.records = appended, !.break = FALSE]

\* "Construct combined data"
CombinedData(records) ==
    [Total |-> Len(records), Status |-> "ok", Data |-> records, Result |-> <<>>]

\* An error check that lets the error pass.
SearchFailedNever(e) == FALSE

\* "if err != nil" after the loop
SearchFailed(e) == e # NoResult

\* What Run prints to os.Stderr before the loop: the notice when no API key
\* is configured, and "Fetching up to %d records...".
LinesBeforeLoop(key, silent) ==
    (IF key = "" THEN <<"no key warning">> ELSE <<>>)
    \o (IF silent THEN <<>> ELSE <<"fetching">>)

\* What one iteration, and the rest of Run up to the error check when the
\* loop breaks, prints to os.Stderr.
LinesOfIteration(out, it, silent) ==
    (IF out.ok /\ ~NoMoreData(PageRecords(out.sd)) /\ ~silent
     THEN <<"fetched">> ELSE <<>>)
    \o (IF it.warn THEN <<"warning stopped">> ELSE <<>>)
    \o (IF it.break /\ ~it.panic /\ ~silent THEN <<"done">> ELSE <<>>)
    \o (IF it.break /\ ~it.panic /\ SearchFailed(it.err)
        THEN <<"error searching">> ELSE <<>>)

\* One request and the iteration on its outcome; when the loop breaks, the
\* rest of Run up to the error check.
FetchPage ==
    /\ pc = "loop"
    /\ \E out \in PageOutcomes :
         LET it == Iteration(out)
         IN  /\ requests' = Append(requests, currentPage)
             /\ pageResp' = out
             /\ allRecords' = it.records
             /\ err' = it.err
             /\ warnings' = IF it.warn THEN Append(warnings, currentPage) ELSE warnings
             /\ currentPage' = IF it.break THEN currentPage ELSE currentPage + 1
             /\ data' = IF it.break /\ ~it.panic THEN CombinedData(it.records) ELSE data
             /\ pc' = IF ~it.break THEN "loop"
                      ELSE IF it.panic THEN "panic"
                      ELSE IF SearchFailed(it.err) THEN "failed"
                      ELSE "done"
             /\ stderr' = stderr \o LinesOfIteration(out, it, searchSilent)
    /\ UNCHANGED <<searchPage, searchPageSize, searchMax,
                   searchSilent, searchExtract, searchExtractIPs, searchOutFile,
                   stdout, created,
                   decodeVars, extractVars, unzipVars, csvVars, exportVars>>

\* What a helper that creates one file leaves behind: nothing but an error
\* line when os.Create fails; else the file, and a report on os.Stderr or,
\* with --silent, the path on os.Stdout.
FileWritten(kind, createOK, silent) ==
    IF ~createOK
    THEN [files |-> {}, errLines |-> <<"error creating file">>, outLines |-> <<>>]
    ELSE [files |-> {kind},
          errLines |-> IF silent THEN <<>> ELSE <<"saved " \o kind>>,
          outLines |-> IF silent THEN <<"path of " \o kind>> ELSE <<>>]

NothingWritten == [files |-> {}, errLines |-> <<>>, outLines |-> <<>>]

\* The rest of Run after the error check: the result directory, the
\* extraction helpers, the output file and the console output.  What the
\* helpers write in their files is the subject of SpecExtract.
SearchOutput ==
    /\ pc = "done"
    /\ pc' = "returned"
    /\ \E mkdirOK, subOK, ipOK, statsOK, saveOK \in BOOLEAN :
         LET needDir == searchExtract \/ searchExtractIPs \/ searchOutFile # ""
             sub == IF searchExtract
                    THEN FileWritten("subdomains", subOK, searchSilent)
                    ELSE NothingWritten
             ips == IF searchExtractIPs
                    THEN FileWritten("ips", ipOK, searchSilent)
                    ELSE NothingWritten
             stats == IF searchExtractIPs /\ ipOK
                      THEN FileWritten("stats", statsOK, searchSilent)
                      ELSE NothingWritten
             table == IF searchExtractIPs /\ ipOK /\ statsOK /\ ~searchSilent
                      THEN <<"statistics">> ELSE <<>>
             saved == IF searchOutFile # ""
                      THEN FileWritten("output", saveOK, searchSilent)
                      ELSE NothingWritten
             console == IF searchOutFile = "" /\ ~searchSilent
                        THEN <<"records">> ELSE <<>>
         IN  IF needDir /\ ~mkdirOK
             THEN /\ stderr' = Append(stderr, "error creating result directory")
                  /\ UNCHANGED <<stdout, created>>
             ELSE /\ created' = created
                                   \cup (IF needDir THEN {"result"} ELSE {})
                                   \cup sub.files \cup ips.files
                                   \cup stats.files \cup saved.files
                  /\ stderr' = stderr \o sub.errLines \o ips.errLines
                                   \o stats.errLines \o table \o saved.errLines
                  /\ stdout' = stdout \o sub.outLines \o ips.outLines
                                   \o stats.outLines \o saved.outLines \o console
    /\ UNCHANGED <<searchPage, searchPageSize, searchMax, allRecords, currentPage,
                   err, requests, pageResp, warnings, data,
                   searchSilent, searchExtract, searchExtractIPs, searchOutFile,
                   decodeVars, extractVars, unzipVars, csvVars, exportVars>>

SearchIdle ==
    /\ pc = "idle"
    /\ searchPage = 1
    /\ searchPageSize = 0
    /\ searchMax = 0
    /\ allRecords = <<>>
    /\ currentPage = 1
    /\ err = NoResult
    /\ requests = <<>>
    /\ pageResp = NoResult
    /\ warnings = <<>>
    /\ data = ZeroSearchData
    /\ searchSilent = FALSE
    /\ searchExtract = FALSE
    /\ searchExtractIPs = FALSE
    /\ searchOutFile = ""
    /\ stderr = <<>>
    /\ stdout = <<>>
    /\ created = {}

\* The state in which Run enters the loop.
LoopEntry ==
    /\ pc = "loop"
    /\ allRecords = <<>>
    /\ currentPage = searchPage
    /\ err = NoResult
    /\ requests = <<>>
    /\ pageResp = NoResult
    /\ warnings = <<>>
    /\ data = ZeroSearchData
    /\ stderr = LinesBeforeLoop(apiKey, searchSilent)
    /\ stdout = <<>>
    /\ created = {}

Init ==
    /\ DecodeIdle
    /\ ExtractIdle
    /\ UnzipIdle
    /\ CSVIdle
    /\ ExportIdle
    /\ searchPage \in 1..MaxStartPage
    /\ searchPageSize \in -1..MaxPageSize
    /\ searchMax \in -1..MaxMax
    /\ searchSilent = FALSE
    /\ searchExtract = FALSE
    /\ searchExtractIPs = FALSE
    /\ searchOutFile = ""
    /\ LoopEntry

Next == FetchPage

Spec == Init /\ [][Next]_vars

\* The whole of Run, for every choice of the output flags and with or
\* without an API key; the paging flags are those of two typical runs.
InitSearch ==
    /\ DecodeIdle
    /\ ExtractIdle
    /\ UnzipIdle
    /\ CSVIdle
    /\ ExportNotCalled
    /\ apiKey \in {"", "key"}
    /\ searchPage = 1
    /\ searchPageSize = MaxPageSize
    /\ searchMax \in {MaxPageSize, MaxMax}
    /\ searchSilent \in BOOLEAN
    /\ searchExtract \in BOOLEAN
    /\ searchExtractIPs \in BOOLEAN
    /\ searchOutFile \in {"", "out.json"}
    /\ LoopEntry

NextSearch == FetchPage \/ SearchOutput

SpecSearch == InitSearch /\ [][NextSearch]_vars

-----------------------------------------------------------------------------
(* Strings of the extraction helpers are sequences of one-character        *)
(* strings, so that parsing, formatting and sort.Strings act on text.      *)

\* The characters in use, in byte order.
Alphabet ==
    <<".", "/", "0", "1", "2", "3", "4", "5", "6", "7", "8", "9", ":",
      "a", "b", "c", "d", "e", "f", "i", "o">>

Rank(c) == CHOOSE i \in 1..Len(Alphabet) : Alphabet[i] = c

IsDigit(c) == Rank(c) >= Rank("0") /\ Rank(c) <= Rank("9")
IsHexDigit(c) == IsDigit(c) \/ (Rank(c) >= Rank("a") /\ Rank(c) <= Rank("f"))
DigitVal(c) == Rank(c) - Rank("0")
HexVal(c) == IF IsDigit(c) THEN DigitVal(c) ELSE 10 + Rank(c) - Rank("a")

\* a < b as Go compares strings: byte by byte, a proper prefix first.
RECURSIVE StrLess(_, _)
StrLess(a, b) ==
    IF b = <<>> THEN FALSE
    ELSE IF a = <<>> THEN TRUE
    ELSE IF a[1] # b[1] THEN Rank(a[1]) < Rank(b[1])
    ELSE StrLess(Tail(a), Tail(b))

\* The sequence holding the members of S in any order.
RECURSIVE Orderings(_)
Orderings(S) ==
    IF S = {} THEN {<<>>}
    ELSE UNION {{<<x>> \o p : p \in Orderings(S \ {x})} : x \in S}

\* sort.Strings on the members of S.
RECURSIVE SortStrings(_)
SortStrings(S) ==
    IF S = {} THEN <<>>
    ELSE LET least == CHOOSE x \in S : \A y \in S \ {x} : StrLess(x, y)
         IN  <<least>> \o SortStrings(S \ {least})

-----------------------------------------------------------------------------
(* net.ParseIP, IP.To4, net.CIDRMask, IP.Mask and IP.String.               *)
(* An IP is a sequence of 4 or 16 bytes; <<>> is nil.                      *)

NilIP == <<>>
Zero16 == [i \in 1..16 |-> 0]

\* The dotted-decimal fields of s: four bytes, or <<>> when s is no IPv4
\* address (a character that is no digit or dot, an empty field, a leading
\* zero, a field above 255, too few or too many fields).
RECURSIVE ParseIPv4Fields(_, _, _, _, _, _)
ParseIPv4Fields(s, i, val, pos, digLen, fields) ==
    IF i > Len(s)
    THEN IF pos < 3 THEN <<>> ELSE Append(fields, val)
    ELSE IF IsDigit(s[i])
    THEN IF digLen = 1 /\ val = 0 THEN <<>>
         ELSE LET v == val * 10 + DigitVal(s[i])
              IN  IF v > 255 THEN <<>>
                  ELSE ParseIPv4Fields(s, i + 1, v, pos, digLen + 1, fields)
    ELSE IF s[i] = "."
    THEN IF i = 1 \/ i = Len(s) \/ s[i - 1] = "." THEN <<>>
         ELSE IF pos = 3 THEN <<>>
         ELSE ParseIPv4Fields(s, i + 1, 0, pos + 1, 0, Append(fields, val))
    ELSE <<>>

\* An IPv4 address in its 16-byte form.
V4InV6(f) == [i \in 1..16 |-> IF i <= 10 THEN 0 ELSE IF i <= 12 THEN 255 ELSE f[i - 12]]

ParseIPv4(s) ==
    LET f == ParseIPv4Fields(s, 1, 0, 0, 0, <<>>)
    IN  IF f = <<>> THEN NilIP ELSE V4InV6(f)

\* The number of leading hexadecimal digits of s.
RECURSIVE HexRun(_)
HexRun(s) ==
    IF s = <<>> \/ ~IsHexDigit(s[1]) THEN 0 ELSE 1 + HexRun(Tail(s))

\* The value of the hexadecimal digits s.
RECURSIVE HexNumber(_)
HexNumber(s) ==
    IF s = <<>> THEN 0
    ELSE HexNumber(SubSeq(s, 1, Len(s) - 1)) * 16 + HexVal(s[Len(s)])

Drop(s, n) == SubSeq(s, n + 1, Len(s))

\* The end of parseIPv6: the whole string must be used, and a short
\* address is filled with zeros where the "::" stood.
V6Finish(s, i, ip, ellipsis) ==
    IF s # <<>> THEN NilIP
    ELSE IF i < 16
    THEN IF ellipsis < 0 THEN NilIP
         ELSE LET n == 16 - i
              IN  [j \in 1..16 |->
                     IF j - 1 < ellipsis THEN ip[j]
                     ELSE IF j - 1 < ellipsis + n THEN 0
                     ELSE ip[j - n]]
    ELSE IF ellipsis >= 0 THEN NilIP
    ELSE ip

\* The loop of parseIPv6: one colon-separated field per turn, i the number
\* of bytes stored, ellipsis the byte position of "::" (-1: none yet).
RECURSIVE V6Loop(_, _, _, _)
V6Loop(s, i, ip, ellipsis) ==
    IF i >= 16 THEN V6Finish(s, i, ip, ellipsis)
    ELSE
    LET off == HexRun(s)
        acc == HexNumber(SubSeq(s, 1, off))
    IN  IF off > 4 \/ off = 0 THEN NilIP
        ELSE IF off < Len(s) /\ s[off + 1] = "."
        THEN IF ellipsis < 0 /\ i # 12 THEN NilIP
             ELSE IF i + 4 > 16 THEN NilIP
             ELSE LET f == ParseIPv4Fields(s, 1, 0, 0, 0, <<>>)
                  IN  IF f = <<>> THEN NilIP
                      ELSE V6Finish(<<>>, i + 4,
                               [j \in 1..16 |->
                                  IF j > i /\ j <= i + 4 THEN f[j - i] ELSE ip[j]],
                               ellipsis)
        ELSE
        LET ip2 == [ip EXCEPT ![i + 1] = acc \div 256, ![i + 2] = acc % 256]
            s1 == Drop(s, off)
        IN  IF s1 = <<>> THEN V6Finish(s1, i + 2, ip2, ellipsis)
            ELSE IF s1[1] # ":" THEN NilIP
            ELSE IF Len(s1) = 1 THEN NilIP
            ELSE IF s1[2] = ":"
            THEN IF ellipsis >= 0 THEN NilIP
                 ELSE IF Len(s1) = 2 THEN V6Finish(<<>>, i + 2, ip2, i + 2)
                 ELSE V6Loop(Drop(s1, 2), i + 2, ip2, i + 2)
            ELSE V6Loop(Tail(s1), i + 2, ip2, ellipsis)

ParseIPv6(s) ==
    IF Len(s) >= 2 /\ s[1] = ":" /\ s[2] = ":"
    THEN IF Len(s) = 2 THEN Zero16 ELSE V6Loop(Drop(s, 2), 0, Zero16, 0)
    ELSE V6Loop(s, 0, Zero16, -1)

\* net.ParseIP: the first dot or colon decides the family.
RECURSIVE ParseIPFrom(_, _)
ParseIPFrom(s, i) ==
    IF i > Len(s) THEN NilIP
    ELSE IF s[i] = "." THEN ParseIPv4(s)
    ELSE IF s[i] = ":" THEN ParseIPv6(s)
    ELSE ParseIPFrom(s, i + 1)

ParseIP(s) == ParseIPFrom(s, 1)

\* IP.To4: the four bytes of an IPv4 or IPv4-mapped address, else nil.
To4(ip) ==
    IF Len(ip) = 4 THEN ip
    ELSE IF /\ Len(ip) = 16
            /\ \A i \in 1..10 : ip[i] = 0
            /\ ip[11] = 255
            /\ ip[12] = 255
    THEN SubSeq(ip, 13, 16)
    ELSE NilIP

\* net.CIDRMask(ones, bits) for ones a multiple of 8.
CIDRMask(ones, bits) == [i \in 1..(bits \div 8) |-> IF i * 8 <= ones THEN 255 ELSE 0]

\* a & b on bytes.
RECURSIVE BitAnd(_, _)
BitAnd(a, b) ==
    IF a = 0 \/ b = 0 THEN 0
    ELSE (2 * BitAnd(a \div 2, b \div 2)) + (IF a % 2 = 1 /\ b % 2 = 1 THEN 1 ELSE 0)

\* IP.Mask
Mask(ip, mask) ==
    LET p == IF Len(mask) = 4 /\ Len(ip) = 16 /\ To4(ip) # NilIP THEN To4(ip) ELSE ip
    IN  IF Len(p) # Len(mask) THEN NilIP
        ELSE [i \in 1..Len(p) |-> BitAnd(p[i], mask[i])]

RECURSIVE DecString(_)
DecString(n) ==
    IF n < 10 THEN <<Alphabet[Rank("0") + n]>>
    ELSE DecString(n \div 10) \o <<Alphabet[Rank("0") + (n % 10)]>>

HexDigit(d) == IF d < 10 THEN Alphabet[Rank("0") + d] ELSE Alphabet[Rank("a") + d - 10]

RECURSIVE HexString(_)
HexString(n) ==
    IF n < 16 THEN <<HexDigit(n)>>
    ELSE HexString(n \div 16) \o <<HexDigit(n % 16)>>

DottedString(b) ==
    DecString(b[1]) \o <<".">> \o DecString(b[2]) \o <<".">>
        \o DecString(b[3]) \o <<".">> \o DecString(b[4])

\* The 16-bit groups of a 16-byte address, numbered from 0.
Group(ip, k) == ip[2 * k + 1] * 256 + ip[2 * k + 2]

\* The length of the run of zero groups that starts at group k.
RECURSIVE ZeroRun(_, _)
ZeroRun(ip, k) ==
    IF k > 7 \/ Group(ip, k) # 0 THEN 0 ELSE 1 + ZeroRun(ip, k + 1)

\* Where "::" goes: the first longest run of two or more zero groups
\* (8: there is none).
ZeroStart(ip) ==
    IF \A k \in 0..7 : ZeroRun(ip, k) < 2 THEN 8
    ELSE CHOOSE k \in 0..7 :
            /\ ZeroRun(ip, k) >= 2
            /\ \A j \in 0..7 : ZeroRun(ip, j) <= ZeroRun(ip, k)
            /\ \A j \in 0..(k - 1) : ZeroRun(ip, j) < ZeroRun(ip, k)

RECURSIVE V6StringFrom(_, _, _)
V6StringFrom(ip, k, zs) ==
    IF k > 7 THEN <<>>
    ELSE IF k = zs
    THEN <<":", ":">> \o
         (IF k + ZeroRun(ip, k) > 7 THEN <<>>
          ELSE HexString(Group(ip, k + ZeroRun(ip, k)))
                  \o V6StringFrom(ip, k + ZeroRun(ip, k) + 1, zs))
    ELSE (IF k > 0 THEN <<":">> ELSE <<>>)
            \o HexString(Group(ip, k)) \o V6StringFrom(ip, k + 1, zs)

\* IP.String
IPString(ip) ==
    IF To4(ip) # NilIP THEN DottedString(To4(ip))
    ELSE V6StringFrom(ip, 0, ZeroStart(ip))

-----------------------------------------------------------------------------
(* extractSubdomains and extractIPs.                                       *)

\* The records a helper reads: Data, or Result when Data is empty.
RecordsOf(sd) ==
    IF Len(sd.Data) > 0 THEN sd.Data
    ELSE IF Len(sd.Result) > 0 THEN sd.Result
    ELSE <<>>

\* The keys of the subdomains map after the loop over the records.
Subdomains(records) ==
    {records[i].Subdomain : i \in {j \in 1..Len(records) : records[j].Subdomain # <<>>}}

\* extractSubdomains: the file holds the keys in the order the map
\* iteration yields them, which Go leaves unspecified.
ExtractSubdomains ==
    /\ exCall = "none"
    /\ exCall' = "extractSubdomains"
    /\ \E createOK \in BOOLEAN :
         IF createOK
         THEN \E lines \in Orderings(Subdomains(RecordsOf(exData))) :
                 subFile' = File(lines)
         ELSE subFile' = NoFile
    /\ UNCHANGED <<exData, ipFile, statsFile, decodeVars, searchVars, unzipVars, csvVars, exportVars>>

\* A subnet key that masks an IPv4 address to /16.
SubnetKeyWideMask(ip) ==
    IF To4(ip) # NilIP
    THEN IPString(Mask(ip, CIDRMask(16, 32))) \o <<"/", "2", "4">>
    ELSE IPString(Mask(ip, CIDRMask(64, 128))) \o <<"/", "6", "4">>

\* The subnet an address is counted in.
SubnetKey(ip) ==
    IF To4(ip) # NilIP
    THEN IPString(Mask(ip, CIDRMask(24, 32))) \o <<"/", "2", "4">>
    ELSE IPString(Mask(ip, CIDRMask(64, 128))) \o <<"/", "6", "4">>

\* A membership test that takes every value for new.
SeenNever(val, ips) == FALSE

\* ips[val]
Seen(val, ips) == val \in ips

\* The loop over the records: ips is the key set of the ips map, stats
\* the subnetStats map (a missing key counts 0).
RECURSIVE CollectIPs(_, _, _, _)
CollectIPs(records, i, ips, stats) ==
    IF i > Len(records) THEN [ips |-> ips, stats |-> stats]
    ELSE LET val == records[i].Value
             ip == ParseIP(val)
         IN  IF ip # NilIP /\ ~Seen(val, ips)
             THEN LET subnet == SubnetKey(ip)
                      count == IF subnet \in DOMAIN stats THEN stats[subnet] ELSE 0
                  IN  CollectIPs(records, i + 1, ips \cup {val},
                          [k \in DOMAIN stats \cup {subnet} |->
                              IF k = subnet THEN count + 1 ELSE stats[k]])
             ELSE CollectIPs(records, i + 1, ips, stats)

\* The lines of the IP file.
SortedIPs(ips) == SortStrings(ips)

\* The lines of the stats file.
StatsLines(stats) ==
    LET sortedSubnets == SortStrings(DOMAIN stats)
    IN  [i \in 1..Len(sortedSubnets) |->
            [subnet |-> sortedSubnets[i], count |-> stats[sortedSubnets[i]]]]

\* extractIPs: the IP file, then the stats file; a file that cannot be
\* created ends the helper.
ExtractIPs ==
    /\ exCall = "none"
    /\ exCall' = "extractIPs"
    /\ \E ipOK \in BOOLEAN, statsOK \in BOOLEAN :
         LET got == CollectIPs(RecordsOf(exData), 1, {}, <<>>)
         IN  /\ ipFile' = IF ipOK THEN File(SortedIPs(got.ips)) ELSE NoFile
             /\ statsFile' = IF ipOK /\ statsOK THEN File(StatsLines(got.stats)) ELSE NoFile
    /\ UNCHANGED <<exData, subFile, decodeVars, searchVars, unzipVars, csvVars, exportVars>>

(* The records the model hands to the helpers.                             *)
Rec(sub, val) == [Subdomain |-> sub, Value |-> val]

SubA == <<"a", ".", "i", "o">>
SubB == <<"b", ".", "i", "o">>
Val1234 == <<"1", ".", "2", ".", "3", ".", "4">>
Val1235 == <<"1", ".", "2", ".", "3", ".", "5">>
Val12310 == <<"1", ".", "2", ".", "3", ".", "1", "0">>
ValLoopback == <<":", ":", "1">>
ValLoopbackLong ==
    <<"0", ":", "0", ":", "0", ":", "0", ":", "0", ":", "0", ":", "0", ":", "1">>
ValMapped == <<":", ":", "f", "f", "f", "f", ":", "1", ".", "2", ".", "3", ".", "4">>

ExtractRecords ==
    {Rec(SubA, Val1234), Rec(SubB, Val1235), Rec(SubA, ValLoopback),
     Rec(SubB, SubA), Rec(<<>>, Val12310), Rec(<<>>, ValMapped),
     Rec(<<>>, ValLoopbackLong)}

ExtractInputs ==
    {[ZeroSearchData EXCEPT !.Data = d] : d \in SeqsUpTo(ExtractRecords, MaxExtractRecs)}
    \cup {[ZeroSearchData EXCEPT !.Result = r] : r \in SeqsUpTo(ExtractRecords, 2)}
    \cup {[ZeroSearchData EXCEPT !.Data = <<Rec(SubA, Val1234)>>,
                                 !.Result = <<Rec(SubB, Val1235)>>]}

InitExtract ==
    /\ DecodeIdle
    /\ SearchIdle
    /\ UnzipIdle
    /\ CSVIdle
    /\ ExportIdle
    /\ exData \in ExtractInputs
    /\ exCall = "none"
    /\ subFile = NoFile
    /\ ipFile = NoFile
    /\ statsFile = NoFile

NextExtract == ExtractSubdomains \/ ExtractIPs

SpecExtract == InitExtract /\ [][NextExtract]_vars

-----------------------------------------------------------------------------
(* path/filepath on a slash-separated system: Clean, Join, Dir, and        *)
(* strings.HasPrefix.  Paths are sequences of one-character strings.       *)

DotDot == <<".", ".">>

\* strings.Split(s, "/")
RECURSIVE SplitFrom(_, _, _, _)
SplitFrom(s, i, cur, out) ==
    IF i > Len(s) THEN Append(out, cur)
    ELSE IF s[i] = "/" THEN SplitFrom(s, i + 1, <<>>, Append(out, cur))
    ELSE SplitFrom(s, i + 1, Append(cur, s[i]), out)

SplitSlash(s) == SplitFrom(s, 1, <<>>, <<>>)

\* strings.Join(comps, "/")
RECURSIVE JoinSlash(_)
JoinSlash(comps) ==
    IF comps = <<>> THEN <<>>
    ELSE IF Len(comps) = 1 THEN comps[1]
    ELSE comps[1] \o <<"/">> \o JoinSlash(Tail(comps))

\* The element loop of Clean: empty and "." elements vanish, ".." removes
\* the element before it, or stays when a relative path has none to remove.
RECURSIVE CleanComponents(_, _, _, _)
CleanComponents(comps, i, out, rooted) ==
    IF i > Len(comps) THEN out
    ELSE LET c == comps[i]
         IN  IF c = <<>> \/ c = <<".">>
             THEN CleanComponents(comps, i + 1, out, rooted)
             ELSE IF c = DotDot
             THEN IF out # <<>> /\ out[Len(out)] # DotDot
                  THEN CleanComponents(comps, i + 1, SubSeq(out, 1, Len(out) - 1), rooted)
                  ELSE IF rooted
                  THEN CleanComponents(comps, i + 1, out, rooted)
                  ELSE CleanComponents(comps, i + 1, Append(out, DotDot), rooted)
             ELSE CleanComponents(comps, i + 1, Append(out, c), rooted)

Clean(path) ==
    IF path = <<>> THEN <<".">>
    ELSE LET rooted == path[1] = "/"
             body == JoinSlash(CleanComponents(SplitSlash(path), 1, <<>>, rooted))
         IN  IF rooted THEN <<"/">> \o body
             ELSE IF body = <<>> THEN <<".">>
             ELSE body

\* filepath.Join(a, b): empty elements are ignored, the rest is cleaned.
Join(a, b) ==
    IF a = <<>> /\ b = <<>> THEN <<>>
    ELSE IF a = <<>> THEN Clean(b)
    ELSE IF b = <<>> THEN Clean(a)
    ELSE Clean(a \o <<"/">> \o b)

\* The index of the last separator of path (0: none).
RECURSIVE LastSlash(_, _)
LastSlash(path, i) ==
    IF i = 0 THEN 0
    ELSE IF path[i] = "/" THEN i
    ELSE LastSlash(path, i - 1)

\* filepath.Dir(path)
Dir(path) == Clean(SubSeq(path, 1, LastSlash(path, Len(path))))

HasPrefix(s, prefix) ==
    Len(s) >= Len(prefix) /\ SubSeq(s, 1, Len(prefix)) = prefix

-----------------------------------------------------------------------------
(* unzip.                                                                  *)

\* resultDir, the destination exportStartCmd passes to unzip.
DestDir == <<"r", "e", "s", "u", "l", "t">>

\* A path guard that compares with the destination without a separator.
IllegalPathNoSeparator(fpath, destDir) ==
    ~HasPrefix(fpath, Clean(destDir))

\* The ZipSlip guard: fpath does not start with the destination and a
\* separator.
IllegalPath(fpath, destDir) ==
    ~HasPrefix(fpath, Clean(destDir) \o <<"/">>)

\* path and the directories above it, outermost first.
Ancestors(path) ==
    LET c == SplitSlash(path)
    IN  [k \in 1..Len(c) |-> JoinSlash(SubSeq(c, 1, k))]

\* os.MkdirAll(path): the directories it makes and whether it succeeds.
\* It succeeds at once when path is a directory; it fails at a file on the
\* way, and it may fail at any directory it has to make, leaving those
\* above it made.
MkdirAllOutcomes(path) ==
    LET anc == Ancestors(path)
        n == Len(anc)
        blocked == {k \in 1..n : anc[k] \in DOMAIN fsFiles}
        made(k) == {anc[j] : j \in 1..k} \ fsDirs
    IN  IF path \in fsDirs THEN {[ok |-> TRUE, made |-> {}]}
        ELSE (IF blocked = {} THEN {[ok |-> TRUE, made |-> made(n)]} ELSE {})
             \cup {[ok |-> FALSE, made |-> made(k - 1)] :
                      k \in {j \in 1..n : anc[j] \notin fsDirs /\ \A b \in blocked : j <= b}}

Logged(entry, op, paths) == {[entry |-> entry, op |-> op, path |-> q] : q \in paths}

\* zip.OpenReader(src)
UnzipOpen ==
    /\ zpc = "start"
    /\ \E ok \in BOOLEAN :
         /\ zpc' = IF ok THEN "loop" ELSE "returned"
         /\ zipErr' = IF ok THEN "none" ELSE "open archive"
    /\ UNCHANGED <<zipFiles, zi, filePaths, fsDirs, fsFiles, writeLog,
                   decodeVars, searchVars, extractVars, csvVars, exportVars>>

\* One iteration of the loop over r.File.
UnzipEntry ==
    /\ zpc = "loop"
    /\ zi < Len(zipFiles)
    /\ zi' = zi + 1
    /\ LET f == zipFiles[zi + 1]
           fpath == Join(DestDir, f.Name)
       IN  IF IllegalPath(fpath, DestDir)
           THEN /\ zpc' = "returned"
                /\ zipErr' = "illegal file path"
                /\ UNCHANGED <<filePaths, fsDirs, fsFiles, writeLog>>
           ELSE /\ filePaths' = Append(filePaths, fpath)
                /\ IF f.IsDir
                   THEN \E o \in MkdirAllOutcomes(fpath) :
                          /\ fsDirs' = fsDirs \cup o.made
                          /\ writeLog' = writeLog \cup Logged(zi + 1, "mkdir", o.made)
                          /\ UNCHANGED <<zpc, zipErr, fsFiles>>
                   ELSE \E o \in MkdirAllOutcomes(Dir(fpath)) :
                          /\ fsDirs' = fsDirs \cup o.made
                          /\ \E step \in {"mkdir", "create", "open entry", "copy", "none"} :
                               /\ (step = "mkdir") = ~o.ok
                               /\ fpath \in fsDirs' /\ o.ok => step = "create"
                               /\ zipErr' = step
                               /\ zpc' = IF step = "none" THEN "loop" ELSE "returned"
                               /\ \E bytes \in 0..f.Size :
                                    /\ step \in {"mkdir", "create", "open entry"} => bytes = 0
                                    /\ step = "copy" => bytes < f.Size
                                    /\ step = "none" => bytes = f.Size
                                    /\ fsFiles' =
                                         IF step \in {"mkdir", "create"} THEN fsFiles
                                         ELSE [q \in DOMAIN fsFiles \cup {fpath} |->
                                                  IF q = fpath
                                                  THEN [bytes |-> bytes, entry |-> zi + 1]
                                                  ELSE fsFiles[q]]
                                    /\ writeLog' =
                                         writeLog \cup Logged(zi + 1, "mkdir", o.made)
                                         \cup (IF step \in {"mkdir", "create"} THEN {}
                                               ELSE Logged(zi + 1, "create", {fpath}))
                                         \cup (IF bytes > 0
                                               THEN Logged(zi + 1, "write", {fpath})
                                               ELSE {})
    /\ UNCHANGED <<zipFiles, decodeVars, searchVars, extractVars, csvVars, exportVars>>

\* The loop is over: return filePaths, nil.
UnzipReturn ==
    /\ zpc = "loop"
    /\ zi = Len(zipFiles)
    /\ zpc' = "returned"
    /\ UNCHANGED <<zipFiles, zi, filePaths, zipErr, fsDirs, fsFiles, writeLog,
                   decodeVars, searchVars, extractVars, csvVars, exportVars>>

\* What unzip returns: the paths, or nil with an error.
UnzipPaths == IF zipErr = "none" THEN filePaths ELSE <<>>

(* The archives the model extracts.                                        *)
Entry(name, isDir, size) == [Name |-> name, IsDir |-> isDir, Size |-> size]

NameEvil == <<".", ".", "/", "e", "v", "i", "l", ".", "t", "x", "t">>
NameCSV == <<"a", ".", "c", "s", "v">>
NameSibling == <<".", ".", "/", "r", "e", "s", "u", "l", "t", "x", "/", "f">>

ZipEntries ==
    {Entry(NameCSV, FALSE, 2),
     Entry(<<"d", "/">>, TRUE, 0),
     Entry(<<"d", "/", "b">>, FALSE, 1),
     Entry(<<"d">>, FALSE, 1),
     Entry(NameEvil, FALSE, 1),
     Entry(NameSibling, FALSE, 1),
     Entry(<<"d", "/", ".", ".", "/", ".", ".", "/", "e">>, FALSE, 1),
     Entry(<<"/", "a", "b", "s">>, FALSE, 1),
     Entry(<<".">>, TRUE, 0)}

InitUnzip ==
    /\ DecodeIdle
    /\ SearchIdle
    /\ ExtractIdle
    /\ CSVIdle
    /\ ExportIdle
    /\ zipFiles \in SeqsUpTo(ZipEntries, MaxEntries)
    /\ zpc = "start"
    /\ zi = 0
    /\ filePaths = <<>>
    /\ zipErr = "none"
    /\ fsDirs = {DestDir}
    /\ fsFiles = <<>>
    /\ writeLog = {}

NextUnzip == UnzipOpen \/ UnzipEntry \/ UnzipReturn

SpecUnzip == InitUnzip /\ [][NextUnzip]_vars

-----------------------------------------------------------------------------
(* parseCSV.                                                               *)

UpperLetters ==
    <<"A", "B", "C", "D", "E", "F", "G", "H", "I", "J", "K", "L", "M",
      "N", "O", "P", "Q", "R", "S", "T", "U", "V", "W", "X", "Y", "Z">>
LowerLetters ==
    <<"a", "b", "c", "d", "e", "f", "g", "h", "i", "j", "k", "l", "m",
      "n", "o", "p", "q", "r", "s", "t", "u", "v", "w", "x", "y", "z">>

\* strings.ToLower
ToLower(s) ==
    [i \in 1..Len(s) |->
        IF \E k \in 1..26 : UpperLetters[k] = s[i]
        THEN LowerLetters[CHOOSE k \in 1..26 : UpperLetters[k] = s[i]]
        ELSE s[i]]

RECURSIVE DropBlank(_)
DropBlank(lines) ==
    IF lines = <<>> THEN <<>>
    ELSE IF lines[1] = <<>> THEN DropBlank(Tail(lines))
    ELSE <<lines[1]>> \o DropBlank(Tail(lines))

\* reader.ReadAll(): blank lines are skipped; every record must have as
\* many fields as the first.
ReadAll(lines) ==
    LET recs == DropBlank(lines)
    IN  IF \E i \in 1..Len(recs) : Len(recs[i]) # Len(recs[1])
        THEN [rawRecords |-> <<>>, err |-> "wrong number of fields"]
        ELSE [rawRecords |-> recs, err |-> "none"]

ZeroRecord ==
    [Type |-> <<>>, Value |-> <<>>, Timestamp |-> <<>>, Date |-> <<>>, Subdomain |-> <<>>]

\* The cell of row at a 0-based column, when the row is long enough.
Cell(row, idx, old) == IF Len(row) > idx THEN row[idx + 1] ELSE old

\* The record built from a row under the column indices.
RowRecord(row, subdomainIdx, typeIdx, valueIdx, dateIdx) ==
    [ZeroRecord EXCEPT !.Subdomain = Cell(row, subdomainIdx, @),
                       !.Type = Cell(row, typeIdx, @),
                       !.Value = Cell(row, valueIdx, @),
                       !.Date = Cell(row, dateIdx, @)]

HeaderTokens ==
    {<<"s", "u", "b", "d", "o", "m", "a", "i", "n">>,
     <<"t", "y", "p", "e">>,
     <<"v", "a", "l", "u", "e">>,
     <<"d", "a", "t", "e">>}

\* firstRowIsData after the loop over the header cells.
FirstRowIsData(header) ==
    ~\E i \in 1..Len(header) : ToLower(header[i]) \in HeaderTokens

\* The records parseCSV builds from the rows ReadAll returned.
ParseRows(rawRecords) ==
    IF Len(rawRecords) < 2 THEN <<>>
    ELSE LET header == rawRecords[1]
             subdomainIdx == 0
             valueIdx == 1
             typeIdx == 2
             dateIdx == 3
             first == IF FirstRowIsData(header)
                      THEN <<RowRecord(header, subdomainIdx, typeIdx, valueIdx, dateIdx)>>
                      ELSE <<>>
         IN  first \o [i \in 1..(Len(rawRecords) - 1) |->
                          RowRecord(rawRecords[i + 1], subdomainIdx, typeIdx, valueIdx, dateIdx)]

ParseCSV ==
    /\ csvCall = "none"
    /\ csvCall' = "done"
    /\ \E openOK \in BOOLEAN :
         LET read == ReadAll(csvFile)
         IN  IF ~openOK
             THEN csvRecords' = <<>> /\ csvErr' = "open"
             ELSE IF read.err # "none"
             THEN csvRecords' = <<>> /\ csvErr' = read.err
             ELSE csvRecords' = ParseRows(read.rawRecords) /\ csvErr' = "none"
    /\ UNCHANGED <<csvFile, decodeVars, searchVars, extractVars, unzipVars, exportVars>>

(* The files the model parses.                                             *)
RowExample ==
    <<<<"e", "x", "a", "m", "p", "l", "e", ".", "c", "o", "m">>,
      <<"A">>,
      <<"1", ".", "1", ".", "1", ".", "1">>,
      <<"2", "0", "2", "4", "-", "0", "1", "-", "0", "1">>>>
RowHeader ==
    <<<<"S", "u", "b", "d", "o", "m", "a", "i", "n">>,
      <<"T", "y", "p", "e">>,
      <<"V", "a", "l", "u", "e">>,
      <<"D", "a", "t", "e">>>>
RowData ==
    <<<<"b", ".", "i", "o">>,
      <<"1", ".", "2", ".", "3", ".", "4">>,
      <<"A">>,
      <<"2", "0", "2", "4", "-", "0", "1", "-", "0", "2">>>>
RowShort ==
    <<<<"c", ".", "i", "o">>,
      <<"1", ".", "2", ".", "3", ".", "5">>>>
RowShout ==
    <<<<"d", ".", "i", "o">>,
      <<"1", ".", "2", ".", "3", ".", "6">>,
      <<"T", "Y", "P", "E">>,
      <<"2", "0", "2", "4", "-", "0", "1", "-", "0", "3">>>>

CSVLines == {RowExample, RowHeader, RowData, RowShort, RowShout, <<>>}

InitCSV ==
    /\ DecodeIdle
    /\ SearchIdle
    /\ ExtractIdle
    /\ UnzipIdle
    /\ ExportIdle
    /\ csvFile \in SeqsUpTo(CSVLines, MaxRows)
    /\ csvCall = "none"
    /\ csvRecords = <<>>
    /\ csvErr = "none"

NextCSV == ParseCSV

SpecCSV == InitCSV /\ [][NextCSV]_vars

-----------------------------------------------------------------------------
(* exportStartCmd.Run: submit, poll, download, decompress, post-process.   *)

\* filepath.Base on a slash-separated system.
RECURSIVE StripSlashes(_)
StripSlashes(path) ==
    IF path # <<>> /\ path[Len(path)] = "/"
    THEN StripSlashes(SubSeq(path, 1, Len(path) - 1))
    ELSE path

Base(path) ==
    IF path = <<>> THEN <<".">>
    ELSE LET stripped == StripSlashes(path)
             last == SubSeq(stripped, LastSlash(stripped, Len(stripped)) + 1, Len(stripped))
         IN  IF last = <<>> THEN <<"/">> ELSE last

HasSuffix(s, suffix) ==
    Len(s) >= Len(suffix) /\ SubSeq(s, Len(s) - Len(suffix) + 1, Len(s)) = suffix

DotZip == <<".", "z", "i", "p">>
DotCSV == <<".", "c", "s", "v">>

\* The fallback file name "rapiddns_export_<query>_<timestamp><ext>"; the
\* query and the timestamp are left out of the text.
FallbackName(compress) ==
    <<"r", "a", "p", "i", "d", "d", "n", "s", "_", "e", "x", "p", "o", "r", "t">> \o (IF compress THEN DotZip ELSE DotCSV)

\* "Extract filename from URL or generate one"
FileNameFor(url, compress) ==
    LET name == Base(url)
    IN  IF name = <<>> \/ name = <<".">> \/ name = <<"/">>
        THEN FallbackName(compress)
        ELSE name

\* A key check that lets the empty key pass.
KeyMissingNever(key) == FALSE

\* The API key check at the head of Run.
KeyMissing(key) == key = ""

\* ExportData returned an error.
SubmitFailed(r) == ~r.ok

\* A submit that is tried again after an error.
AfterSubmitErrorRetries(r) == "submit"

\* ExportData returned an error: print it and return.
AfterSubmitError(r) == "done"

\* A poll loop that gives up when the key is refused.
AfterPollErrorAuthFatal(r) == IF r.fmt = ErrAuth THEN "done" ELSE "poll"

\* CheckExportStatus returned an error: sleep 5 seconds and continue.
AfterPollError(r) == "poll"

\* A completion test that waits for the download URL.
TaskCompletedWithURL(statusData) ==
    statusData.Status = "completed" /\ statusData.DownloadURL # <<>>

\* A completion test that takes "failed" for "completed" too.
TaskCompletedOrFailed(statusData) == statusData.Status \in {"completed", "failed"}

\* statusData.Status == "completed"
TaskCompleted(statusData) == statusData.Status = "completed"

\* A loop that does not know the "failed" state.
TaskFailedNever(statusData) == FALSE

\* statusData.Status == "failed"
TaskFailed(statusData) == statusData.Status = "failed"

\* A URL check that lets the empty URL pass.
NoDownloadURLNever(url) == FALSE

\* downloadURL == ""
NoDownloadURL(url) == url = <<>>

\* A download check that lets an HTTP error status pass.
DownloadFailedTransportOnly(e) == e = ErrTransport

\* DownloadFile returned an error.
DownloadFailed(e) == e # "none"

\* "Decompress if needed"
NeedsUnzip(name, compress) == compress /\ HasSuffix(ToLower(name), DotZip)

IsCSVName(name) == HasSuffix(ToLower(name), DotCSV)

(* The responses the model lets the server give.                           *)
TransportFailure == [transport |-> "error", code |-> 0, env |-> ZeroExportEnvelope]

ExportEnvelope(st, m, message, payload) ==
    [status |-> st, msg |-> m, message |-> message, data |-> payload]

HTTPResponse(code, env) == [transport |-> "ok", code |-> code, env |-> env]

ExportStatuses == {"ok", "error", ""}

SubmitResponses ==
    {TransportFailure}
    \cup {HTTPResponse(c, e) :
            c \in HTTPCodes \ {200},
            e \in {ZeroExportEnvelope,
                   ExportEnvelope("ok", "", ExportAbsentDoc, ExportIDDoc(StrField("t2")))}}
    \cup {HTTPResponse(200, ExportEnvelope(st, "denied", message, payload)) :
            st \in ExportStatuses,
            message \in {ExportAbsentDoc, ExportStringDoc("queued"),
                         ExportIDDoc(StrField("t1")), ExportIDDoc(NoneField)},
            payload \in {ExportAbsentDoc, ExportNullDoc, ExportStringDoc("quota exceeded"),
                      ExportIDDoc(StrField("t2")), ExportIDDoc(NoneField),
                      ExportIDDoc(BadField)}}

URLZip == <<"u", "/", "x", ".", "z", "i", "p">>
URLCSV == <<"u", "/", "y", ".", "C", "S", "V">>
URLRoot == <<"/">>

URLField(u) == [p |-> "str", n |-> 0, s |-> u, l |-> <<>>]

StatusMessages ==
    {ExportAbsentDoc,
     ExportStringDoc("busy"),
     StatusObjectDoc(StrField("t1"), StrField("completed"), IntField(100), URLField(URLZip)),
     StatusObjectDoc(NoneField, NoneField, NoneField, URLField(URLCSV)),
     StatusObjectDoc(NoneField, StrField("completed"), BadField, URLField(URLRoot))}

StatusDatas ==
    {ExportAbsentDoc,
     ExportNullDoc,
     ExportStringDoc("quota exceeded"),
     StatusObjectDoc(NoneField, NoneField, NoneField, NoneField),
     StatusObjectDoc(StrField("t1"), StrField("pending"), IntField(0), NoneField),
     StatusObjectDoc(StrField("t1"), StrField("processing"), BadField, NoneField),
     StatusObjectDoc(StrField("t1"), StrField("unknown"), IntField(50), NoneField),
     StatusObjectDoc(StrField("t1"), StrField("completed"), IntField(100), URLField(URLZip)),
     StatusObjectDoc(StrField("t1"), StrField("completed"), IntField(100), URLField(URLCSV)),
     StatusObjectDoc(StrField("t1"), StrField("completed"), IntField(100), NoneField),
     StatusObjectDoc(StrField("t1"), StrField("completed"), IntField(100), URLField(<<>>)),
     StatusObjectDoc(StrField("t1"), StrField("failed"), IntField(10), URLField(URLZip))}

StatusResponses ==
    {TransportFailure}
    \cup {HTTPResponse(c, e) :
            c \in HTTPCodes \ {200},
            e \in {ZeroExportEnvelope,
                   ExportEnvelope("ok", "", ExportAbsentDoc,
                       StatusObjectDoc(StrField("t1"), StrField("completed"),
                                       IntField(100), URLField(URLZip)))}}
    \cup {HTTPResponse(200, ExportEnvelope(st, "", message, payload)) :
            st \in ExportStatuses, message \in StatusMessages, payload \in StatusDatas}

DownloadResponses ==
    {TransportFailure} \cup {HTTPResponse(c, ZeroExportEnvelope) : c \in HTTPCodes}

\* The head of Run: without an API key it prints the notice and returns.
ExportStart ==
    /\ epc = "start"
    /\ IF KeyMissing(apiKey)
       THEN epc' = "done" /\ exportEnd' = "no key"
       ELSE epc' = "submit" /\ exportEnd' = exportEnd
    /\ UNCHANGED <<apiKey, exportCompress, exportExtract, exportExtractIPs,
                   taskID, downloadURL, fileName, extractedCSVPath, polls, slept,
                   expCall, expResp, expResult, etrace,
                   decodeVars, searchVars, extractVars, unzipVars, csvVars>>

\* "1. Start Export Task"
ExportSubmit ==
    /\ epc = "submit"
    /\ \E resp \in SubmitResponses :
         LET r == ExportData(resp)
         IN  /\ expCall' = "ExportData"
             /\ expResp' = resp
             /\ expResult' = r
             /\ etrace' = Append(etrace, "submit")
             /\ IF SubmitFailed(r)
                THEN /\ epc' = AfterSubmitError(r)
                     /\ exportEnd' = "submit failed"
                     /\ taskID' = taskID
                ELSE /\ epc' = "poll"
                     /\ exportEnd' = exportEnd
                     /\ taskID' = r.data.ExportID
    /\ UNCHANGED <<apiKey, exportCompress, exportExtract, exportExtractIPs,
                   downloadURL, fileName, extractedCSVPath, polls, slept,
                   decodeVars, searchVars, extractVars, unzipVars, csvVars>>

\* "2. Poll Status": one status check and what the loop does with it; when
\* the loop breaks, the download URL check after it.
PollIteration(counted, traced) ==
    /\ epc = "poll"
    /\ polls' = counted
    /\ \E resp \in StatusResponses :
         LET r == CheckExportStatus(resp)
         IN  /\ expCall' = "CheckExportStatus"
             /\ expResp' = resp
             /\ expResult' = r
             /\ etrace' = traced
             /\ IF ~r.ok
                THEN /\ slept' = 5
                     /\ epc' = AfterPollError(r)
                     /\ UNCHANGED <<exportEnd, downloadURL>>
                ELSE IF TaskCompleted(r.data)
                THEN /\ downloadURL' = r.data.DownloadURL
                     /\ slept' = slept
                     /\ IF NoDownloadURL(r.data.DownloadURL)
                        THEN epc' = "done" /\ exportEnd' = "no download URL"
                        ELSE epc' = "download" /\ exportEnd' = exportEnd
                ELSE IF TaskFailed(r.data)
                THEN /\ epc' = "done"
                     /\ exportEnd' = "task failed"
                     /\ UNCHANGED <<slept, downloadURL>>
                ELSE /\ slept' = 2
                     /\ UNCHANGED <<epc, exportEnd, downloadURL>>
    /\ UNCHANGED <<apiKey, exportCompress, exportExtract, exportExtractIPs,
                   taskID, fileName, extractedCSVPath,
                   decodeVars, searchVars, extractVars, unzipVars, csvVars>>

\* A status check that is counted in polls and recorded in etrace.
ExportPoll ==
    /\ polls < MaxPolls
    /\ PollIteration(polls + 1, Append(etrace, "poll"))

\* The loop has no retry limit: the status checks after the MaxPolls-th are
\* the same iteration, no longer counted nor recorded.
ExportPollOn ==
    /\ polls = MaxPolls
    /\ PollIteration(polls, etrace)

\* "3. Download File": the result directory, the file name, the download,
\* and the choice of what follows.
ExportDownload ==
    /\ epc = "download"
    /\ \E mkdirOK \in BOOLEAN, resp \in DownloadResponses :
         LET name == FileNameFor(downloadURL, exportCompress)
         IN  IF ~mkdirOK
             THEN /\ epc' = "done"
                  /\ exportEnd' = "no result directory"
                  /\ UNCHANGED <<fileName, extractedCSVPath, expCall, expResp,
                                 expResult, etrace>>
             ELSE /\ fileName' = name
                  /\ expCall' = "DownloadFile"
                  /\ expResp' = resp
                  /\ expResult' = expResult
                  /\ etrace' = Append(etrace, "download")
                  /\ IF DownloadFailed(DownloadFile(resp))
                     THEN /\ epc' = "done"
                          /\ exportEnd' = "download failed"
                          /\ extractedCSVPath' = extractedCSVPath
                     ELSE /\ exportEnd' = exportEnd
                          /\ IF NeedsUnzip(name, exportCompress)
                             THEN epc' = "decompress" /\ extractedCSVPath' = ""
                             ELSE /\ epc' = "postprocess"
                                  /\ extractedCSVPath' =
                                       IF IsCSVName(name) THEN "destPath" ELSE ""
    /\ UNCHANGED <<apiKey, exportCompress, exportExtract, exportExtractIPs,
                   taskID, downloadURL, polls, slept,
                   decodeVars, searchVars, extractVars, unzipVars, csvVars>>

\* "4. Decompress if needed": unzip fails, or extracts files among which
\* there is a CSV file or none.
ExportDecompress ==
    /\ epc = "decompress"
    /\ \E unzipped \in {"error", "no csv", "csv"} :
         extractedCSVPath' = IF unzipped = "csv" THEN "unzipped" ELSE ""
    /\ etrace' = Append(etrace, "unzip")
    /\ epc' = "postprocess"
    /\ UNCHANGED <<apiKey, exportCompress, exportExtract, exportExtractIPs,
                   exportEnd, taskID, downloadURL, fileName, polls, slept,
                   expCall, expResp, expResult,
                   decodeVars, searchVars, extractVars, unzipVars, csvVars>>

\* "5. Extract Subdomains and IPs from CSV"
ExportPostProcess ==
    /\ epc = "postprocess"
    /\ epc' = "done"
    /\ exportEnd' = "finished"
    /\ IF (exportExtract \/ exportExtractIPs) /\ extractedCSVPath # ""
       THEN \E parseOK \in BOOLEAN :
              etrace' = etrace \o <<"parseCSV">>
                  \o (IF parseOK /\ exportExtract THEN <<"extractSubdomains">> ELSE <<>>)
                  \o (IF parseOK /\ exportExtractIPs THEN <<"extractIPs">> ELSE <<>>)
       ELSE etrace' = etrace
    /\ UNCHANGED <<apiKey, exportCompress, exportExtract, exportExtractIPs,
                   taskID, downloadURL, fileName, extractedCSVPath, polls, slept,
                   expCall, expResp, expResult,
                   decodeVars, searchVars, extractVars, unzipVars, csvVars>>

\* exportStatusCmd.Run: without an API key it prints the notice and
\* returns; else one status check, whose status or error it prints.
ExportStatus ==
    /\ epc = "status"
    /\ epc' = "done"
    /\ IF KeyMissing(apiKey)
       THEN /\ exportEnd' = "no key for status"
            /\ UNCHANGED <<taskID, expCall, expResp, expResult, etrace>>
       ELSE \E id \in {"t1", "t2"}, resp \in StatusResponses :
              LET r == CheckExportStatus(resp)
              IN  /\ taskID' = id
                  /\ expCall' = "CheckExportStatus"
                  /\ expResp' = resp
                  /\ expResult' = r
                  /\ etrace' = Append(etrace, "status")
                  /\ exportEnd' = IF r.ok THEN "status printed" ELSE "status failed"
    /\ UNCHANGED <<apiKey, exportCompress, exportExtract, exportExtractIPs,
                   downloadURL, fileName, extractedCSVPath, polls, slept,
                   decodeVars, searchVars, extractVars, unzipVars, csvVars>>

\* The state in which a command of the export group starts.
ExportEntry ==
    /\ DecodeIdle
    /\ SearchIdle
    /\ ExtractIdle
    /\ UnzipIdle
    /\ CSVIdle
    /\ apiKey \in {"", "key"}
    /\ exportCompress \in BOOLEAN
    /\ exportExtract \in BOOLEAN
    /\ exportExtractIPs \in BOOLEAN
    /\ exportEnd = "running"
    /\ taskID = ""
    /\ downloadURL = <<>>
    /\ fileName = <<>>
    /\ extractedCSVPath = ""
    /\ polls = 0
    /\ slept = 0
    /\ expCall = "none"
    /\ expResp = TransportFailure
    /\ expResult = NoExportResult
    /\ etrace = <<>>

InitExport == ExportEntry /\ epc = "start"

NextExport ==
    \/ ExportStart
    \/ ExportSubmit
    \/ ExportPoll
    \/ ExportDownload
    \/ ExportDecompress
    \/ ExportPostProcess

SpecExport == InitExport /\ [][NextExport]_vars

\* The workflow with the poll loop unbounded.  Run is sequential code and
\* time.Sleep returns, so a step of Run that can be taken is taken.
NextExportLive == NextExport \/ ExportPollOn

SpecExportLive ==
    InitExport /\ [][NextExportLive]_vars /\ WF_vars(NextExportLive)

\* The two commands of the export group, start and status.
InitExportCommands == ExportEntry /\ epc \in {"start", "status"}

NextExportCommands == NextExport \/ ExportStatus

SpecExportCommands == InitExportCommands /\ [][NextExportCommands]_vars

-----------------------------------------------------------------------------
(* SpecDecode: one response arrives and one client method decodes it.      *)

CallSearch ==
    /\ lastCall = "none"
    /\ lastCall' = "Search"
    /\ result' = Search(lastResp)
    /\ UNCHANGED <<lastResp, searchVars, extractVars, unzipVars, csvVars, exportVars>>

CallAdvancedQuery ==
    /\ lastCall = "none"
    /\ lastCall' = "AdvancedQuery"
    /\ result' = AdvancedQuery(lastResp)
    /\ UNCHANGED <<lastResp, searchVars, extractVars, unzipVars, csvVars, exportVars>>

InitDecode ==
    /\ SearchIdle
    /\ ExtractIdle
    /\ UnzipIdle
    /\ CSVIdle
    /\ ExportIdle
    /\ lastCall = "none"
    /\ lastResp \in Responses
    /\ result = NoResult

NextDecode == CallSearch \/ CallAdvancedQuery

SpecDecode == InitDecode /\ [][NextDecode]_vars

-----------------------------------------------------------------------------
(* SpecClient: the four API methods side by side, Search and AdvancedQuery *)
(* on one response each, ExportData and CheckExportStatus as Run calls     *)
(* them.                                                                   *)

InitClient == InitDecode \/ InitExport

NextClient == NextDecode \/ NextExport

SpecClient == InitClient /\ [][NextClient]_vars

-----------------------------------------------------------------------------
(* Properties of the envelope decoder (SpecDecode).                        *)

\* A client method has decoded a response whose HTTP status is a success.
Decoded ==
    /\ lastCall # "none"
    /\ lastResp.transport = "ok"
    /\ lastResp.code = 200

SuccessStatuses == {NumStatus(200), StrStatus("200"), StrStatus("ok")}

\* The sub-document decodes structurally as a SearchData.
DecodesStructurally(doc) ==
    /\ doc.kind = "object"
    /\ \A f \in {doc.total, doc.status, doc.data, doc.result} : f.p # "bad"

\* The sub-document is an accepted payload: it decodes and carries a
\* non-empty record list, a positive total or a non-empty status.
AcceptedPayload(doc) ==
    /\ DecodesStructurally(doc)
    /\ \/ doc.data.p = "list" /\ Len(doc.data.l) > 0
       \/ doc.result.p = "list" /\ Len(doc.result.l) > 0
       \/ doc.total.p = "int" /\ doc.total.n > 0
       \/ doc.status.p = "str" /\ doc.status.s # ""

\* C1 as stated: a success status makes decoding succeed with a RecordSet,
\* every other status yields the APIError carrying msg.
C1_SuccessStatusAlwaysDecodes ==
    Decoded =>
        IF lastResp.env.status \in SuccessStatuses
        THEN result.ok
        ELSE result = Failure(ErrAPI, lastResp.env.msg)

\* C1 amended: a success status (number 200, string "200" or "ok") passes
\* the status check: the decoder never yields the APIError, it returns a
\* RecordSet whenever message is an accepted payload or data decodes
\* structurally, and otherwise fails only with the data-message or the
\* parse error; every other status yields the APIError carrying msg.
C1_StatusCheck ==
    Decoded =>
        IF lastResp.env.status \in SuccessStatuses
        THEN /\ result.ok \/ result.fmt \in {ErrDataMessage, ErrParse}
             /\ (AcceptedPayload(lastResp.env.message)
                    \/ DecodesStructurally(lastResp.env.data)) => result.ok
        ELSE result = Failure(ErrAPI, lastResp.env.msg)

\* C1 witness: a string status "ok" decoded to a RecordSet with a record.
C1_Witness ==
    /\ Decoded
    /\ lastResp.env.status = StrStatus("ok")
    /\ result.ok
    /\ Len(result.sd.Data) > 0

\* The list a member of an object carries (none: the empty list).
MemberList(f) == IF f.p = "list" THEN f.l ELSE <<>>

\* C2: when message decodes to a record list with at least one entry, the
\* decoder returns the payload of message (its lists, total and status) and
\* nothing of data, whatever data holds.
C2_MessagePreferred ==
    (/\ Decoded
     /\ lastResp.env.status \in SuccessStatuses
     /\ DecodesStructurally(lastResp.env.message)
     /\ Len(MemberList(lastResp.env.message.data))
          + Len(MemberList(lastResp.env.message.result)) > 0)
    => /\ result.ok
       /\ result.sd.Data = MemberList(lastResp.env.message.data)
       /\ result.sd.Result = MemberList(lastResp.env.message.result)
       /\ result.sd.Total =
            (IF lastResp.env.message.total.p = "int"
             THEN lastResp.env.message.total.n ELSE 0)
       /\ result.sd.Status =
            (IF lastResp.env.message.status.p = "str"
             THEN lastResp.env.message.status.s ELSE "")

\* C2 witness: message and data both decode to non-empty, different record
\* lists and the records of message came back.
C2_Witness ==
    /\ Decoded
    /\ lastResp.env.status \in SuccessStatuses
    /\ DecodesStructurally(lastResp.env.message)
    /\ DecodesStructurally(lastResp.env.data)
    /\ Len(MemberList(lastResp.env.message.data)) > 0
    /\ Len(MemberList(lastResp.env.data.data)) > 0
    /\ MemberList(lastResp.env.message.data) # MemberList(lastResp.env.data.data)
    /\ result.ok
    /\ result.sd.Data = MemberList(lastResp.env.message.data)

\* C3: AdvancedQuery on a success envelope whose message is not accepted
\* and whose data is the bare string "ok" returns an empty RecordSet with
\* status "ok" and no error.
C3_BareOkIsEmptySuccess ==
    (/\ Decoded
     /\ lastCall = "AdvancedQuery"
     /\ lastResp.env.status \in SuccessStatuses
     /\ ~AcceptedPayload(lastResp.env.message)
     /\ lastResp.env.data = StringDoc("ok"))
    => /\ result.ok
       /\ result.sd.Data = <<>>
       /\ result.sd.Result = <<>>
       /\ result.sd.Status = "ok"

\* C3 witness: the empty success came back for a bare "ok" next to a
\* message that is a plain string.
C3_Witness ==
    /\ Decoded
    /\ lastCall = "AdvancedQuery"
    /\ lastResp.env.status \in SuccessStatuses
    /\ lastResp.env.message.kind = "string"
    /\ lastResp.env.data = StringDoc("ok")
    /\ result = Success([ZeroSearchData EXCEPT !.Status = "ok"])

-----------------------------------------------------------------------------
(* Properties of the pagination loop (Spec).                               *)

\* This step issued a page request.
Requested == requests' # requests

\* The records of the page this step received.
Arrived == PageRecords(pageResp'.sd)

\* Once the loop has stopped no page is requested any more.
NoRequestAfterStop == pc # "loop" => requests' = requests

\* C4: when a page arrives with n records, 0 < n < pageSize, the loop
\* appends them to the accumulated records (the result is cut to --max
\* only if the limit is reached), stops after this one request, and never
\* issues another page request.
C4_ShortPageStops ==
    [][/\ NoRequestAfterStop
       /\ (/\ Requested
           /\ pageResp'.ok
           /\ Len(Arrived) > 0
           /\ Len(Arrived) < searchPageSize)
          => /\ pc' # "loop"
             /\ requests' = Append(requests, currentPage)
             /\ Len(allRecords) + Len(Arrived) < searchMax
                  => /\ allRecords' = allRecords \o Arrived
                     /\ pc' = "done"
                     /\ data'.Data = allRecords \o Arrived
             /\ (searchMax >= 0 /\ Len(allRecords) + Len(Arrived) >= searchMax)
                  => allRecords' = SubSeq(allRecords \o Arrived, 1, searchMax)]_vars

\* C4 witness: pages of 2, 2 and 1 records with pageSize 2 gave exactly 5
\* records after exactly 3 requests.
C4_Witness ==
    /\ pc = "done"
    /\ searchPageSize = 2
    /\ Len(requests) = 3
    /\ Len(PageRecords(pageResp.sd)) = 1
    /\ Len(data.Data) = 5
    /\ data.Total = 5

\* C5 as stated, for any maxRecords: once the count after appending a page
\* reaches maxRecords the loop stops and returns exactly the first
\* maxRecords records, and a returned RecordSet never holds more.
C5_AnyMaxTruncates ==
    [][/\ (/\ Requested
           /\ pageResp'.ok
           /\ Len(Arrived) > 0
           /\ Len(allRecords) + Len(Arrived) >= searchMax)
          => /\ pc' = "done"
             /\ Len(data'.Data) = searchMax
       /\ pc' = "done" => Len(data'.Data) <= searchMax]_vars

\* C5 amended: for maxRecords >= 0, once the count after appending a page
\* reaches maxRecords the loop stops, issues no further request, and returns
\* exactly the first maxRecords records in arrival order; a returned
\* RecordSet never holds more than maxRecords.  For maxRecords < 0 the first
\* non-empty page makes the truncation panic and nothing is returned.
C5_NonNegativeMaxTruncates ==
    [][/\ NoRequestAfterStop
       /\ (/\ Requested
           /\ pageResp'.ok
           /\ Len(Arrived) > 0
           /\ Len(allRecords) + Len(Arrived) >= searchMax)
          => IF searchMax >= 0
             THEN /\ pc' = "done"
                  /\ data'.Data = SubSeq(allRecords \o Arrived, 1, searchMax)
                  /\ Len(data'.Data) = searchMax
                  /\ data'.Total = searchMax
             ELSE pc' = "panic"
       /\ (pc' = "done" /\ searchMax >= 0) => Len(data'.Data) <= searchMax]_vars

\* C5 witness: the second page took the count past maxRecords = 3 and the
\* result was cut to 3 records after 2 requests.
C5_Witness ==
    /\ pc = "done"
    /\ searchMax = 3
    /\ searchPageSize = 2
    /\ Len(requests) = 2
    /\ Len(PageRecords(pageResp.sd)) = 2
    /\ Len(data.Data) = 3

\* C10: when a page fetch fails the loop stops and no further page is
\* requested; with nothing accumulated the search fails with that error,
\* with at least one record accumulated the records so far are returned as
\* the result and a warning is printed.
C10_FetchFailure ==
    [][/\ NoRequestAfterStop
       /\ (Requested /\ ~pageResp'.ok)
          => /\ requests' = Append(requests, currentPage)
             /\ IF allRecords = <<>>
                THEN /\ pc' = "failed"
                     /\ err' = pageResp'
                     /\ warnings' = warnings
                ELSE /\ pc' = "done"
                     /\ err' = NoResult
                     /\ data' = CombinedData(allRecords)
                     /\ warnings' = Append(warnings, currentPage)]_vars

\* C10 witness: the third request failed and the four records of the first
\* two pages were returned with a warning.
C10_Witness ==
    /\ pc = "done"
    /\ ~pageResp.ok
    /\ Len(requests) = 3
    /\ Len(data.Data) = 4
    /\ Len(warnings) = 1
    /\ err = NoResult

\* s is an initial segment of q.
IsPrefix(s, q) == Len(s) <= Len(q) /\ SubSeq(q, 1, Len(s)) = s

\* C11: the k-th request asks for page startPage + k - 1; each request
\* leaves the records held so far in place and appends the records of its
\* page in their order, repeats included, and only the cut to --max on the
\* stopping request shortens that; the result returned is the sequence held.
\* So the result is a prefix of the pages' record lists in request order.
C11_PrefixOfArrivals ==
    [][/\ NoRequestAfterStop
       /\ Requested
          => /\ requests' = Append(requests, searchPage + Len(requests))
             /\ IsPrefix(allRecords', allRecords \o Arrived)
             /\ allRecords' # allRecords \o Arrived
                  => /\ pc' # "loop"
                     /\ \/ ~pageResp'.ok /\ allRecords' = allRecords
                        \/ /\ searchMax >= 0
                           /\ Len(allRecords \o Arrived) >= searchMax
                           /\ allRecords' = SubSeq(allRecords \o Arrived, 1, searchMax)
             /\ pc' = "done" => data'.Data = allRecords'
       /\ ~Requested => allRecords' = allRecords]_vars

\* C11 witness: from --page 2, pages 2 and 3 brought <<1, 2>> and <<2, 1>>,
\* and the result holds the repeated records, cut to --max 3.
C11_Witness ==
    /\ pc = "done"
    /\ searchPage = 2
    /\ requests = <<2, 3>>
    /\ searchMax = 3
    /\ PageRecords(pageResp.sd) = <<2, 1>>
    /\ data.Data = <<1, 2, 2>>

-----------------------------------------------------------------------------
(* Properties of the extraction helpers (SpecExtract).                     *)

\* The Value strings of the records a helper reads, and those that parse.
ValuesRead == {RecordsOf(exData)[i].Value : i \in 1..Len(RecordsOf(exData))}
ValidValues == {v \in ValuesRead : ParseIP(v) # NilIP}

StrictlySorted(lines) ==
    \A i \in 1..Len(lines) : \A j \in 1..Len(lines) :
        i < j => StrLess(lines[i], lines[j])

HasColon(s) == \E i \in 1..Len(s) : s[i] = ":"

\* The subnet of a value by the notation it is written in: the first three
\* octets for dotted text, the first eight bytes for text with a colon.
TextualSubnet(v) ==
    LET ip == ParseIP(v)
    IN  IF HasColon(v)
        THEN IPString([i \in 1..16 |-> IF i <= 8 THEN ip[i] ELSE 0])
                 \o <<"/", "6", "4">>
        ELSE LET ip4 == To4(ip)
             IN  IPString(<<ip4[1], ip4[2], ip4[3], 0>>) \o <<"/", "2", "4">>

\* The subnet of a value by the address it denotes: a /24 for every address
\* that has a 4-byte form, a /64 for every other.
AddressSubnet(v) ==
    LET ip == ParseIP(v)
        ip4 == To4(ip)
    IN  IF ip4 # NilIP
        THEN IPString(<<ip4[1], ip4[2], ip4[3], 0>>) \o <<"/", "2", "4">>
        ELSE IPString([i \in 1..16 |-> IF i <= 8 THEN ip[i] ELSE 0])
                 \o <<"/", "6", "4">>

\* The IP file holds every valid value once, in ascending byte order.
IPFileRight ==
    /\ Len(ipFile.lines) = Cardinality(ValidValues)
    /\ {ipFile.lines[i] : i \in 1..Len(ipFile.lines)} = ValidValues
    /\ StrictlySorted(ipFile.lines)

\* The stats file holds, under subnetOf, one line per subnet with the
\* number of valid values in it.
StatsFileRight(subnetOf(_)) ==
    LET lines == statsFile.lines
    IN  /\ {lines[i].subnet : i \in 1..Len(lines)} = {subnetOf(v) : v \in ValidValues}
        /\ \A i \in 1..Len(lines) : \A j \in 1..Len(lines) :
               i < j => StrLess(lines[i].subnet, lines[j].subnet)
        /\ \A i \in 1..Len(lines) :
               lines[i].count =
                   Cardinality({v \in ValidValues : subnetOf(v) = lines[i].subnet})

\* C6 as stated: extractIPs writes exactly the values that are valid IP
\* addresses, each once and in ascending order, and the subnet statistics
\* count every IPv4 value under its /24 and every IPv6 value under its /64.
\* Violated: a value in IPv6 notation that is IPv4-mapped is counted under
\* the /24 of the embedded IPv4 address.
C6_SubnetByNotation ==
    exCall = "extractIPs" /\ ipFile.created =>
        /\ IPFileRight
        /\ statsFile.created => StatsFileRight(TextualSubnet)

\* C6 (amended): extractIPs writes exactly the values that are valid IP
\* addresses, each distinct string once and in ascending byte order; the
\* subnet statistics count each extracted string under the /24 of its
\* address when the address has a 4-byte form (IPv4-mapped IPv6 included)
\* and under its /64 otherwise, one sorted line per subnet.
C6_SubnetByAddress ==
    exCall = "extractIPs" /\ ipFile.created =>
        /\ IPFileRight
        /\ statsFile.created => StatsFileRight(AddressSubnet)

\* The values 1.2.3.4, 1.2.3.5, 1.2.3.4, ::1 were extracted into
\* 1.2.3.4, 1.2.3.5, ::1 and {1.2.3.0/24: 2, ::/64: 1}.
C6_Witness ==
    /\ exCall = "extractIPs"
    /\ Len(exData.Data) = 4
    /\ [i \in 1..4 |-> exData.Data[i].Value] =
           <<Val1234, Val1235, Val1234, ValLoopback>>
    /\ ipFile = File(<<Val1234, Val1235, ValLoopback>>)
    /\ statsFile = File(<<
           [subnet |-> <<"1", ".", "2", ".", "3", ".", "0", "/", "2", "4">>, count |-> 2],
           [subnet |-> <<":", ":", "/", "6", "4">>, count |-> 1]>>)

\* C7 as stated: extractSubdomains writes the distinct non-empty Subdomain
\* values, each once, in ascending lexicographic order.  Violated: the
\* file is written in map iteration order.
C7_SubdomainsSorted ==
    exCall = "extractSubdomains" /\ subFile.created =>
        /\ Len(subFile.lines) = Cardinality(Subdomains(RecordsOf(exData)))
        /\ {subFile.lines[i] : i \in 1..Len(subFile.lines)} = Subdomains(RecordsOf(exData))
        /\ StrictlySorted(subFile.lines)

-----------------------------------------------------------------------------
(* Properties of unzip (SpecUnzip).                                        *)

\* The elements of the path an entry name resolves to under the destination.
Resolved(name) == CleanComponents(<<DestDir>> \o SplitSlash(name), 1, <<>>, FALSE)

\* A list of path elements that lies strictly inside the destination.
InsideDest(comps) ==
    /\ Len(comps) >= 2
    /\ comps[1] = DestDir
    /\ \A k \in 1..Len(comps) : comps[k] \notin {DotDot, <<".">>, <<>>}

\* C8: every entry unzip takes up whose resolved path is not strictly
\* inside the destination makes it return the illegal-path error at that
\* entry, with no directory made, no file created and no byte written for
\* that entry; every directory and file unzip makes or writes is strictly
\* inside the destination.
C8_TraversalRejected ==
    /\ \A i \in 1..zi :
           ~InsideDest(Resolved(zipFiles[i].Name)) =>
               /\ zi = i
               /\ zpc = "returned"
               /\ zipErr = "illegal file path"
               /\ \A w \in writeLog : w.entry # i
    /\ \A w \in writeLog : InsideDest(SplitSlash(w.path))
    /\ \A d \in fsDirs : d = DestDir \/ InsideDest(SplitSlash(d))
    /\ \A q \in DOMAIN fsFiles : InsideDest(SplitSlash(q))

\* The entry ../evil.txt was rejected after an earlier entry was written.
C8_Witness ==
    /\ zpc = "returned"
    /\ zipErr = "illegal file path"
    /\ zi = 2
    /\ zipFiles[2].Name = NameEvil
    /\ \E w \in writeLog : w.entry = 1 /\ w.op = "write"
    /\ \A w \in writeLog : w.entry # 2

-----------------------------------------------------------------------------
(* Properties of parseCSV (SpecCSV).                                       *)

\* The rows of the file.
Rows == DropBlank(csvFile)

\* The record of a row under the default column order
\* {subdomain, value, type, date}.
DefaultRecord(row) ==
    [Subdomain |-> IF Len(row) >= 1 THEN row[1] ELSE <<>>,
     Value |-> IF Len(row) >= 2 THEN row[2] ELSE <<>>,
     Type |-> IF Len(row) >= 3 THEN row[3] ELSE <<>>,
     Date |-> IF Len(row) >= 4 THEN row[4] ELSE <<>>,
     Timestamp |-> <<>>]

NoHeaderToken(row) ==
    \A i \in 1..Len(row) : \A tok \in HeaderTokens : ToLower(row[i]) # tok

\* C9 as stated: for a file with at least one row whose first row holds
\* none of the header tokens, parseCSV returns one record per row, the
\* first row included, in file order and mapped by the default column
\* order.  Violated: for a file of that single row it returns no record.
C9_FirstRowIsData ==
    csvCall = "done" /\ csvErr = "none" /\ Len(Rows) >= 1 /\ NoHeaderToken(Rows[1]) =>
        /\ Len(csvRecords) = Len(Rows)
        /\ \A i \in 1..Len(Rows) : csvRecords[i] = DefaultRecord(Rows[i])

-----------------------------------------------------------------------------
(* Properties of the export workflow (SpecExport).                         *)

\* This step made a status check.
Polled == polls' = polls + 1

\* Run has returned: nothing is requested or processed any more.
EndedForGood == epc = "done" => etrace' = etrace

\* From the poll loop the only step is a status check.
OnlyPollsInLoop == epc = "poll" /\ etrace' # etrace => etrace' = Append(etrace, "poll")

\* The response is one of the failures a status check reports as an error:
\* no response, an HTTP error status, or an envelope status other than "ok".
FailedResponse(resp) ==
    \/ resp.transport = "error"
    \/ resp.code >= 400
    \/ resp.env.status # "ok"

\* C12: a status check that fails (no response, HTTP error status with
\* 401/403 included, envelope status not "ok", payload that does not
\* decode) returns an error, and on every error the loop sleeps 5 seconds
\* and stays in the loop, where the next step is another status check: the
\* export neither ends nor goes on to the download, whatever the number of
\* errors before.
C12_PollErrorsRetried ==
    [][/\ OnlyPollsInLoop
       /\ Polled /\ FailedResponse(expResp') => ~expResult'.ok
       /\ Polled /\ ~expResult'.ok
          => /\ epc' = "poll"
             /\ slept' = 5
             /\ exportEnd' = "running"
             /\ downloadURL' = downloadURL
             /\ taskID' = taskID
             /\ etrace' = Append(etrace, "poll")]_vars

\* C12 witness: the third status check in a row was answered 401 and Run is
\* still in the loop.
C12_Witness ==
    /\ epc = "poll"
    /\ polls = 3
    /\ etrace = <<"submit", "poll", "poll", "poll">>
    /\ expResp.code = 401
    /\ expResult.fmt = ErrAuth
    /\ slept = 5
    /\ downloadURL = <<>>
    /\ exportEnd = "running"

\* The download URLs the response carries in its message and data objects.
URLsOf(resp) ==
    {d.download_url.s : d \in {x \in {resp.env.message, resp.env.data} :
                                  x.kind = "object" /\ x.download_url.p = "str"}}

\* C13: after a status check that returned a status, "completed" leaves the
\* loop with the download URL of that response, and to the download when the
\* URL is not empty; "failed" ends Run with nothing downloaded, unpacked or
\* post-processed; every other state sleeps 2 seconds and stays in the loop
\* for another check.  The loop is left only in these two ways, and a Run
\* that has ended does nothing more.
C13_StatusDecidesLoopExit ==
    [][/\ EndedForGood
       /\ OnlyPollsInLoop
       /\ epc = "poll" /\ epc' # "poll"
          => /\ Polled
             /\ expResult'.ok
             /\ expResult'.data.Status \in {"completed", "failed"}
       /\ Polled /\ expResult'.ok
          => CASE expResult'.data.Status = "completed" ->
                    /\ epc' # "poll"
                    /\ downloadURL' = expResult'.data.DownloadURL
                    /\ downloadURL' # <<>>
                         => epc' = "download" /\ downloadURL' \in URLsOf(expResp')
               [] expResult'.data.Status = "failed" ->
                    /\ epc' = "done"
                    /\ exportEnd' = "task failed"
                    /\ \A i \in 1..Len(etrace') : etrace'[i] \in {"submit", "poll"}
               [] OTHER ->
                    /\ epc' = "poll"
                    /\ slept' = 2
                    /\ exportEnd' = "running"]_vars

\* C13 witness: a check reported "pending", the next one "completed" with a
\* URL, and Run is about to download from it.
C13_Witness ==
    /\ epc = "download"
    /\ polls = 2
    /\ slept = 2
    /\ expResult.ok
    /\ expResult.data.Status = "completed"
    /\ downloadURL = URLZip
    /\ URLsOf(expResp) = {URLZip}

\* The place of a request or processing step in the workflow.
StepOrder(step) ==
    CASE step = "submit" -> 1
      [] step = "poll" -> 2
      [] step = "download" -> 3
      [] step = "unzip" -> 4
      [] OTHER -> 5

\* The place of a position of Run in the workflow.
PositionOrder(at) ==
    CASE at = "start" -> 0
      [] at = "submit" -> 1
      [] at = "poll" -> 2
      [] at = "download" -> 3
      [] at = "decompress" -> 4
      [] at = "postprocess" -> 5
      [] OTHER -> 6

\* The steps this step of Run added to the trace.
Added == SubSeq(etrace', Len(etrace) + 1, Len(etrace'))

\* C14: the steps Run makes are in the order submit, status checks,
\* download, unzip, CSV post-processing, each at most once except the status
\* check; the first status check follows a successful submit, the download
\* a status check that returned "completed", unzip and post-processing a
\* download that succeeded; and Run never moves back to an earlier position.
C14_StepsInOrder ==
    [][/\ IsPrefix(etrace, etrace')
       /\ \A i \in 1..Len(etrace') : \A j \in 1..Len(etrace') :
              i < j => \/ StepOrder(etrace'[i]) < StepOrder(etrace'[j])
                       \/ etrace'[i] = "poll" /\ etrace'[j] = "poll"
                       \/ StepOrder(etrace'[i]) = 5 /\ StepOrder(etrace'[j]) = 5
                              /\ etrace'[i] # etrace'[j]
       /\ \/ PositionOrder(epc) < PositionOrder(epc')
          \/ epc = "poll" /\ epc' = "poll"
       /\ Added # <<>> =>
            CASE Added[1] = "submit" -> etrace = <<>>
              [] Added[1] = "poll" ->
                   \/ etrace = <<"submit">> /\ expCall = "ExportData" /\ expResult.ok
                   \/ etrace # <<>> /\ etrace[Len(etrace)] = "poll"
              [] Added[1] = "download" ->
                   /\ etrace[Len(etrace)] = "poll"
                   /\ expCall = "CheckExportStatus"
                   /\ expResult.ok
                   /\ expResult.data.Status = "completed"
              [] OTHER ->
                   /\ \E i \in 1..Len(etrace) : etrace[i] = "download"
                   /\ expCall = "DownloadFile"
                   /\ expResp.transport = "ok"
                   /\ expResp.code < 400]_vars

\* C14 witness: a Run that went through every step, with two status checks.
C14_Witness ==
    /\ epc = "done"
    /\ etrace = <<"submit", "poll", "poll", "download", "unzip", "parseCSV",
                  "extractSubdomains", "extractIPs">>

\* This step made the submit call.
Submitted == etrace' = Append(etrace, "submit")

\* C15: a submit that fails (no response, HTTP error status, envelope
\* status not "ok", payload that does not decode) returns an error, and on
\* every error Run ends at once: the submit was the only request, it is not
\* made again, and no status check, download, unzip or post-processing
\* follows.
C15_SubmitFailureIsFatal ==
    [][/\ EndedForGood
       /\ Submitted /\ FailedResponse(expResp') => ~expResult'.ok
       /\ Submitted /\ ~expResult'.ok
          => /\ epc' = "done"
             /\ exportEnd' = "submit failed"
             /\ etrace' = <<"submit">>
             /\ polls' = 0
       /\ exportEnd = "submit failed" => etrace' = etrace]_vars

\* C15 witness: the submit was answered "ok" with a payload that does not
\* decode, and Run ended after this one request.
C15_Witness ==
    /\ epc = "done"
    /\ exportEnd = "submit failed"
    /\ expResp.env.status = "ok"
    /\ expResult.fmt = ErrParse
    /\ etrace = <<"submit">>

\* This step made the download request.
Downloaded == etrace' = Append(etrace, "download")

\* C16: a download that fails (no response, or an HTTP error status) ends
\* Run at once: the download is not made again and no unzip, CSV parsing or
\* extraction follows.
C16_DownloadFailureIsFatal ==
    [][/\ EndedForGood
       /\ (Downloaded /\ (expResp'.transport = "error" \/ expResp'.code >= 400))
          => /\ epc' = "done"
             /\ exportEnd' = "download failed"
             /\ extractedCSVPath' = ""
       /\ exportEnd = "download failed" => etrace' = etrace
       /\ exportEnd' = "download failed"
          => /\ etrace'[Len(etrace')] = "download"
             /\ \A i \in 1..(Len(etrace') - 1) : etrace'[i] \in {"submit", "poll"}]_vars

\* C16 witness: with --compress and both extractions asked for, the
\* download of the .zip URL was answered 500 and Run ended.
C16_Witness ==
    /\ epc = "done"
    /\ exportEnd = "download failed"
    /\ exportCompress /\ exportExtract /\ exportExtractIPs
    /\ downloadURL = URLZip
    /\ expCall = "DownloadFile"
    /\ expResp.code = 500
    /\ etrace = <<"submit", "poll", "download">>

-----------------------------------------------------------------------------
(* Properties of the four API methods (SpecClient).                        *)

\* The error an HTTP error status is reported as: the key error for 401 and
\* 403, otherwise the API error carrying the status text.
ClassifiedByCode(resp, ret) ==
    /\ ~ret.ok
    /\ IF resp.code \in {401, 403}
       THEN ret.fmt = ErrAuth
       ELSE ret.fmt = ErrAPI /\ ret.arg = StatusText(resp.code)

\* C17: whenever Search, AdvancedQuery, ExportData or CheckExportStatus has
\* received a response with an HTTP error status, it returns the key error
\* for 401 and 403 and otherwise the API error with the status text,
\* whatever the envelope's status, msg, message and data are.
C17_HTTPErrorClassified ==
    /\ (lastCall \in {"Search", "AdvancedQuery"}
          /\ lastResp.transport = "ok" /\ lastResp.code >= 400)
       => ClassifiedByCode(lastResp, result)
    /\ (expCall \in {"ExportData", "CheckExportStatus"}
          /\ expResp.transport = "ok" /\ expResp.code >= 400)
       => ClassifiedByCode(expResp, expResult)

\* C17 witness: a status check was answered 500 with a body whose envelope
\* says "ok" and "completed", and returned the API error with the status
\* text.
C17_Witness ==
    /\ expCall = "CheckExportStatus"
    /\ expResp.code = 500
    /\ expResp.env.status = "ok"
    /\ expResp.env.data.kind = "object"
    /\ expResult = ExportFailure(ErrAPI, "500 Internal Server Error")

-----------------------------------------------------------------------------
(* Further properties of the envelope decoder (SpecDecode).                *)

\* A success envelope whose message is not accepted and whose data is a
\* bare string.
BareStringData ==
    /\ Decoded
    /\ lastResp.env.status \in SuccessStatuses
    /\ ~AcceptedPayload(lastResp.env.message)
    /\ lastResp.env.data.kind = "string"

\* C18 as stated: on a success envelope whose message is not accepted and
\* whose data is a bare string s, Search and AdvancedQuery return the
\* data-message error carrying s, for every s.  Violated: AdvancedQuery
\* returns an empty result for s = "ok".
C18_EveryBareStringIsDataMessage ==
    BareStringData => result = Failure(ErrDataMessage, lastResp.env.data.str)

\* C18 (amended): on a success envelope whose message is not accepted and
\* whose data is a bare string s, Search returns the data-message error
\* carrying s for every s, and AdvancedQuery does for every s but "ok", for
\* which it returns a result and no error; the data-message error differs
\* from the parse error returned when data is neither a string nor an
\* object that decodes.
C18_BareStringIsDataMessage ==
    /\ BareStringData =>
          IF lastCall = "AdvancedQuery" /\ lastResp.env.data.str = "ok"
          THEN result.ok
          ELSE result = Failure(ErrDataMessage, lastResp.env.data.str)
    /\ (/\ Decoded
        /\ lastResp.env.status \in SuccessStatuses
        /\ ~AcceptedPayload(lastResp.env.message)
        /\ lastResp.env.data.kind \in {"absent", "number"})
       => result = Failure(ErrParse, "")
    /\ ErrDataMessage # ErrParse

\* C18 witness: Search returned the data-message error carrying "ok" for an
\* envelope whose message is an object that was not accepted.
C18_Witness ==
    /\ BareStringData
    /\ lastCall = "Search"
    /\ lastResp.env.message.kind = "object"
    /\ lastResp.env.data.str = "ok"
    /\ result = Failure(ErrDataMessage, "ok")

\* The RecordSet a sub-document that decodes structurally holds.
RecordSetOf(doc) ==
    [Total |-> IF doc.total.p = "int" THEN doc.total.n ELSE 0,
     Status |-> IF doc.status.p = "str" THEN doc.status.s ELSE "",
     Data |-> MemberList(doc.data),
     Result |-> MemberList(doc.result)]

\* A message that is absent, null, a scalar, or an object that decodes to
\* the all-zero structure.
EmptyMessage(doc) ==
    \/ doc.kind \in {"absent", "null", "string", "number"}
    \/ DecodesStructurally(doc) /\ RecordSetOf(doc) = ZeroSearchData

\* C19: on a success envelope, a message that decodes structurally and
\* holds a non-empty data list, a non-empty result list, a total > 0 or a
\* non-empty status is returned as the result, whatever data holds; any
\* other message is not, and the outcome is decided by data: an error unless
\* data decodes (or is the bare "ok" of AdvancedQuery).  When the message is
\* absent, a scalar or all-zero, the result is exactly what data holds.
C19_MessageAcceptedIff ==
    (Decoded /\ lastResp.env.status \in SuccessStatuses) =>
        LET message == lastResp.env.message
            payload == lastResp.env.data
        IN  IF AcceptedPayload(message)
            THEN result = Success(RecordSetOf(message))
            ELSE /\ result.ok <=>
                      \/ payload.kind = "null"
                      \/ DecodesStructurally(payload)
                      \/ lastCall = "AdvancedQuery" /\ payload = StringDoc("ok")
                 /\ (EmptyMessage(message) /\ result.ok /\ payload.kind = "object")
                      => result.sd = RecordSetOf(payload)
                 /\ (EmptyMessage(message) /\ result.ok /\ payload.kind = "null")
                      => result.sd = ZeroSearchData

\* C19 witness: an object message that decodes to the all-zero structure
\* was passed over and the records of data came back.
C19_Witness ==
    /\ Decoded
    /\ lastResp.env.status \in SuccessStatuses
    /\ lastResp.env.message.kind = "object"
    /\ EmptyMessage(lastResp.env.message)
    /\ result.ok
    /\ Len(result.sd.Data) > 0
    /\ result.sd.Data = MemberList(lastResp.env.data.data)

-----------------------------------------------------------------------------
(* Further properties of the export workflow (SpecExport).                 *)

\* C20 as stated: a submit that reports success has obtained a task
\* identifier, so Run is in the poll loop only with a non-empty task
\* identifier.  Violated: ExportData returns success with an empty ExportID
\* when data is null or an object without export_id.
C20_PollsCarryTaskID ==
    /\ (expCall = "ExportData" /\ expResult.ok) => expResult.data.ExportID # ""
    /\ epc = "poll" => taskID # ""
    /\ (\E i \in 1..Len(etrace) : etrace[i] = "poll") => taskID # ""

-----------------------------------------------------------------------------
(* Further properties of the pagination loop (Spec).                       *)

\* C21: a page fetched without error that holds no record stops the loop
\* on that request: no further page is requested, the records accumulated
\* so far are returned unchanged, no error is set and no warning printed;
\* when the first page is empty the search succeeds with an empty RecordSet
\* whose total is 0.
C21_EmptyPageStops ==
    [][/\ NoRequestAfterStop
       /\ (Requested /\ pageResp'.ok /\ Len(Arrived) = 0)
          => /\ pc' = "done"
             /\ requests' = Append(requests, currentPage)
             /\ allRecords' = allRecords
             /\ data' = CombinedData(allRecords)
             /\ err' = NoResult
             /\ warnings' = warnings
             /\ allRecords = <<>>
                  => /\ data'.Data = <<>>
                     /\ data'.Total = 0
                     /\ data'.Status = "ok"]_vars

\* C21 witness: the first page came back without records and the search
\* succeeded with an empty RecordSet after that single request.
C21_Witness ==
    /\ pc = "done"
    /\ pageResp.ok
    /\ PageRecords(pageResp.sd) = <<>>
    /\ Len(requests) = 1
    /\ err = NoResult
    /\ data.Total = 0
    /\ data.Data = <<>>

\* The number of page requests the loop can issue with --max >= 1.
RequestBound ==
    IF searchPageSize >= 1
    THEN (searchMax + searchPageSize - 1) \div searchPageSize
    ELSE searchMax

\* C22: with maxRecords >= 1 the loop issues at most ceil(maxRecords /
\* pageSize) page requests when pageSize >= 1 and at most maxRecords
\* requests when pageSize <= 0; while the loop is still running it has
\* issued strictly fewer, and it has accumulated at least pageSize (and at
\* least one) records for every request so far, so it cannot run forever.
C22_RequestsBounded ==
    (pc # "idle" /\ searchMax >= 1)
       => /\ Len(requests) <= RequestBound
          /\ pc = "loop"
               => /\ Len(requests) < RequestBound
                  /\ Len(allRecords) >= Len(requests)
                  /\ Len(allRecords) >= Len(requests) * searchPageSize
                  /\ Len(allRecords) < searchMax

\* C22 witness: with --max 5 and --pagesize 2 the loop stopped on its third
\* request, which is ceil(5 / 2); and so it does with --pagesize below 1
\* after --max requests.
C22_Witness ==
    /\ pc = "done"
    /\ searchMax = 5
    /\ searchPageSize = 2
    /\ Len(requests) = 3
    /\ Len(requests) = RequestBound
    /\ Len(allRecords) = 5

-----------------------------------------------------------------------------
(* Liveness of the poll loop (SpecExportLive).                             *)

\* The status check of this step succeeded and reported a terminal state.
TerminalAnswer ==
    /\ expCall' = "CheckExportStatus"
    /\ expResult'.ok
    /\ expResult'.data.Status \in {"completed", "failed"}

\* Every status check answered from here on is a terminal one.
OnlyTerminalAnswers == epc = "poll" => TerminalAnswer

\* C23: if from some point on every status check succeeds and reports
\* completed or failed, a run that is in the poll loop eventually leaves it;
\* and a status check answered with an error or a non-terminal state leaves
\* the run in the loop, however many checks came before it.
C23_PollLiveness ==
    /\ <>[][OnlyTerminalAnswers]_vars => ((epc = "poll") ~> (epc # "poll"))
    /\ [][(epc = "poll" /\ ~TerminalAnswer) => epc' = "poll"]_vars

\* C23 witness: after MaxPolls status checks, the last one answered with
\* an error, the run is still in the loop, sleeping 5 seconds.
C23_Witness ==
    /\ epc = "poll"
    /\ polls = MaxPolls
    /\ Len(etrace) = MaxPolls + 1
    /\ ~expResult.ok
    /\ expResult.fmt = ErrAuth
    /\ slept = 5

-----------------------------------------------------------------------------
(* Further properties of the export workflow (SpecExport).                 *)

\* This step's status check returned a status in state "completed".
CompletedAnswer ==
    /\ Polled
    /\ expResult'.ok
    /\ expResult'.data.Status = "completed"

\* C24: Run comes to the download step only by a status check that returned
\* state "completed" with a non-empty download URL, which is the URL it then
\* requests; a download request is made only from that step, with that URL
\* unchanged; and a "completed" status whose URL is empty or missing ends
\* Run with no download request, then or later.
C24_DownloadOnlyWithURL ==
    [][/\ EndedForGood
       /\ (epc # "download" /\ epc' = "download")
          => /\ CompletedAnswer
             /\ downloadURL' = expResult'.data.DownloadURL
             /\ downloadURL' # <<>>
       /\ Downloaded
          => /\ epc = "download"
             /\ downloadURL # <<>>
             /\ downloadURL' = downloadURL
       /\ ~Downloaded
          => \A i \in 1..Len(etrace') :
                etrace'[i] = "download" => i <= Len(etrace) /\ etrace[i] = "download"
       /\ (CompletedAnswer /\ expResult'.data.DownloadURL = <<>>)
          => /\ epc' = "done"
             /\ exportEnd' = "no download URL"
             /\ \A i \in 1..Len(etrace') : etrace'[i] # "download"]_vars

\* C24 witness: the first status check reported "completed" without a
\* download URL and Run ended there, nothing requested for download.
C24_Witness ==
    /\ epc = "done"
    /\ exportEnd = "no download URL"
    /\ expResult.ok
    /\ expResult.data.Status = "completed"
    /\ expResult.data.DownloadURL = <<>>
    /\ etrace = <<"submit", "poll">>

-----------------------------------------------------------------------------
(* Properties of the whole search command (SpecSearch).                    *)

\* C25 as stated: after a fatal search failure nothing has been created,
\* nothing printed on standard output, and the error line is all that was
\* reported.
C25_OnlyErrorLineReported ==
    err # NoResult
       => /\ created = {}
          /\ stdout = <<>>
          /\ stderr = <<"error searching">>

\* C25 amended: when the first page fetch fails, Run ends at the error check
\* after that single request: the result directory is not created, no
\* subdomain, IP, stats or output file is written and nothing is printed on
\* standard output, whatever the output flags; on standard error the error
\* line comes last and once, after the notice printed when no API key is
\* configured and, unless --silent is given, the progress lines "Fetching
\* up to ..." and "Done."; and Run does nothing after that.
C25_NoArtifactsOnFailure ==
    /\ [](err # NoResult
            => /\ pc = "failed"
               /\ Len(requests) = 1
               /\ ~pageResp.ok
               /\ created = {}
               /\ stdout = <<>>
               /\ stderr = LinesBeforeLoop(apiKey, searchSilent)
                             \o (IF searchSilent THEN <<>> ELSE <<"done">>)
                             \o <<"error searching">>)
    /\ [][pc = "failed" => UNCHANGED <<stderr, stdout, created, requests>>]_vars

\* C25 witness: with --extract-subdomains, --extract-ips and --file all
\* given, the first page fetch failed and nothing was created or printed on
\* standard output.
C25_Witness ==
    /\ pc = "failed"
    /\ err = pageResp
    /\ searchExtract
    /\ searchExtractIPs
    /\ searchOutFile # ""
    /\ ~searchSilent
    /\ apiKey = "key"
    /\ created = {}
    /\ stdout = <<>>
    /\ stderr = <<"fetching", "done", "error searching">>

-----------------------------------------------------------------------------
(* Further properties of the extraction helpers (SpecExtract).             *)

\* The sum of the counts of a subnet statistics map.
RECURSIVE SumCounts(_)
SumCounts(stats) ==
    IF DOMAIN stats = {} THEN 0
    ELSE LET k == CHOOSE x \in DOMAIN stats : TRUE
         IN  stats[k] + SumCounts([x \in DOMAIN stats \ {k} |-> stats[x]])

RECURSIVE SumLines(_)
SumLines(lines) ==
    IF lines = <<>> THEN 0 ELSE lines[1].count + SumLines(Tail(lines))

\* What extractIPs computed from the records it read.
Extracted == CollectIPs(RecordsOf(exData), 1, {}, <<>>)

\* The subnet of every Value string of the model records, by notation and
\* by address; <<>> for a string that is no IP address.
ValuesOfRecords == {r.Value : r \in ExtractRecords}

SubnetByNotation ==
    [v \in ValuesOfRecords |-> IF ParseIP(v) = NilIP THEN <<>> ELSE TextualSubnet(v)]

SubnetByAddress ==
    [v \in ValuesOfRecords |-> IF ParseIP(v) = NilIP THEN <<>> ELSE AddressSubnet(v)]

\* The counts add up to the number of unique IP strings, in the maps and in
\* the files written from them, and under the table subnet every extracted
\* string is counted in exactly one key, which is the key of its subnet.
CountedOnce(subnet) ==
    LET got == Extracted
        ips == got.ips
        stats == got.stats
    IN  /\ ips = {v \in ValuesRead : subnet[v] # <<>>}
        /\ SumCounts(stats) = Cardinality(ips)
        /\ ipFile.created => Len(ipFile.lines) = Cardinality(ips)
        /\ statsFile.created => SumLines(statsFile.lines) = Len(ipFile.lines)
        /\ \A v \in ips :
              /\ subnet[v] \in DOMAIN stats
              /\ Cardinality({k \in DOMAIN stats : k = subnet[v]}) = 1
        /\ \A k \in DOMAIN stats :
              stats[k] = Cardinality({v \in ips : subnet[v] = k})

\* C26 as stated: after any IP extraction run the SubnetStats counts sum to
\* the number of unique IP strings of the IP list, and every extracted IP is
\* counted in exactly one key, a /24 key for a value in IPv4 notation and a
\* /64 key for a value in IPv6 notation.  Violated: an IPv4-mapped value in
\* IPv6 notation is counted under a /24 key.
C26_CountedByNotation ==
    exCall = "extractIPs" => CountedOnce(SubnetByNotation)

\* C26 amended: after any IP extraction run the SubnetStats counts sum to
\* the number of unique IP strings of the IP list, and every extracted IP is
\* counted in exactly one key: the /24 key of its address when the address
\* has a 4-byte form (IPv4-mapped IPv6 values included), its /64 key
\* otherwise.
C26_CountedByAddress ==
    exCall = "extractIPs" => CountedOnce(SubnetByAddress)

\* C26 witness: 1.2.3.4, ::ffff:1.2.3.4, 1.2.3.4 and ::1 gave three unique
\* strings, counted as {1.2.3.0/24: 2, ::/64: 1}.
C26_Witness ==
    /\ exCall = "extractIPs"
    /\ Len(exData.Data) = 4
    /\ [i \in 1..4 |-> exData.Data[i].Value] =
           <<Val1234, ValMapped, Val1234, ValLoopback>>
    /\ Len(ipFile.lines) = 3
    /\ statsFile.created
    /\ SumLines(statsFile.lines) = 3
    /\ Len(statsFile.lines) = 2

-----------------------------------------------------------------------------
(* Properties of the export commands (SpecExportCommands).                 *)

\* C27: with no API key configured neither export start nor export status
\* makes an API request: no client method is called, no submit, status
\* check or download is made, and the command ends having reported that a
\* key is required.
C27_NoRequestWithoutKey ==
    apiKey = ""
       => /\ expCall = "none"
          /\ etrace = <<>>
          /\ polls = 0
          /\ taskID = ""
          /\ epc \in {"start", "status", "done"}
          /\ epc = "done" => exportEnd \in {"no key", "no key for status"}

\* C27 witness: export status ran without a key and ended with the notice,
\* no status check made.
C27_Witness ==
    /\ apiKey = ""
    /\ epc = "done"
    /\ exportEnd = "no key for status"
    /\ expCall = "none"
    /\ etrace = <<>>

-----------------------------------------------------------------------------
(* Further properties of parseCSV (SpecCSV).                               *)

\* C28: for a file whose first row is the header Subdomain, Type, Value,
\* Date, parseCSV emits no record for the header and one record for every
\* later row, whose Type is the cell under the Type column and whose Value
\* is the cell under the Value column.  Violated: the fixed column indices
\* read Value from the second column and Type from the third.
C28_HeaderColumnsMapped ==
    (csvCall = "done" /\ csvErr = "none" /\ Len(Rows) >= 2 /\ Rows[1] = RowHeader)
       => /\ Len(csvRecords) = Len(Rows) - 1
          /\ \A i \in 1..Len(csvRecords) :
                /\ csvRecords[i].Subdomain = Rows[i + 1][1]
                /\ csvRecords[i].Type = Rows[i + 1][2]
                /\ csvRecords[i].Value = Rows[i + 1][3]
                /\ csvRecords[i].Date = Rows[i + 1][4]

-----------------------------------------------------------------------------
(* Further properties of the envelope decoder (SpecDecode).                *)

\* C29: when the message is not an accepted payload and the decoder returns
\* a RecordSet from data, that RecordSet is what data alone holds: no record
\* list, total or status of the rejected message is in it.  Violated: a
\* message rejected for an ill-typed member has already stored its other
\* members in the structure that data is then decoded into.
C29_DataAloneDecidesResult ==
    (/\ Decoded
     /\ lastResp.env.status \in SuccessStatuses
     /\ ~AcceptedPayload(lastResp.env.message)
     /\ result.ok)
       => LET payload == lastResp.env.data
          IN  result.sd =
                 IF payload.kind = "object" THEN RecordSetOf(payload)
                 ELSE IF payload.kind = "string"
                 THEN [ZeroSearchData EXCEPT !.Status = "ok"]
                 ELSE ZeroSearchData

====
